---------------------------- MODULE Spec2Model ----------------------------
(***************************************************************************)
(* A model of the MDN codec: the encoder (excel_parser.py), the decoder    *)
(* (mdn_parser.py), the validator (mdn_validator.py) and the reference     *)
(* arithmetic (utils.py).                                                  *)
(*                                                                         *)
(* Text is modelled character by character: a text is a sequence of        *)
(* one-character strings, so that splitting on the three characters        *)
(* '---', stripping, CSV quoting and the digit predicates are computed as  *)
(* the Python code computes them.  Parsed YAML / JSON values and cell      *)
(* values are tagged records [k |-> kind, ...].                            *)
(***************************************************************************)
EXTENDS Integers, Sequences, FiniteSets, TLC

---------------------------------------------------------------------------
(* Python str primitives                                                   *)

\* str.strip() removes these from both ends (the ASCII whitespace used here)
WS == {" ", "\n", "\r", "\t"}

Min(S) == CHOOSE x \in S : \A y \in S : x <= y
Max(S) == CHOOSE x \in S : \A y \in S : x >= y

\* s.startswith(p)
StartsWith(s, p) == Len(p) <= Len(s) /\ SubSeq(s, 1, Len(p)) = p

\* the start indices of the occurrences of p in s
FindAll(s, p) ==
  {i \in 1..(Len(s) - Len(p) + 1) : s[i] = p[1] /\ SubSeq(s, i, i + Len(p) - 1) = p}

\* p in s
Contains(s, p) ==
  \E i \in 1..(Len(s) - Len(p) + 1) : s[i] = p[1] /\ SubSeq(s, i, i + Len(p) - 1) = p

\* the first index from i upwards, the last from i downwards, outside WS
RECURSIVE SkipUp(_, _)
SkipUp(s, i) == IF i <= Len(s) /\ s[i] \in WS THEN SkipUp(s, i + 1) ELSE i
RECURSIVE SkipDown(_, _)
SkipDown(s, i) == IF i >= 1 /\ s[i] \in WS THEN SkipDown(s, i - 1) ELSE i

\* s.strip()
Strip(s) == SubSeq(s, SkipUp(s, 1), SkipDown(s, Len(s)))

\* s.split(sep): leftmost, non-overlapping occurrences; always >= 1 part
RECURSIVE SplitFrom(_, _, _)
SplitFrom(s, sep, start) ==
  LET cand == {i \in FindAll(s, sep) : i >= start}
  IN  IF cand = {} THEN <<SubSeq(s, start, Len(s))>>
      ELSE <<SubSeq(s, start, Min(cand) - 1)>> \o SplitFrom(s, sep, Min(cand) + Len(sep))

Split(s, sep) == SplitFrom(s, sep, 1)

\* sep.join(parts)
RECURSIVE Join(_, _)
Join(parts, sep) ==
  IF parts = <<>> THEN <<>>
  ELSE IF Len(parts) = 1 THEN parts[1]
  ELSE parts[1] \o sep \o Join(Tail(parts), sep)

\* s.replace(old, new)
Replace(s, old, new) == Join(Split(s, old), new)

Digits == {"0", "1", "2", "3", "4", "5", "6", "7", "8", "9"}
DigitChars == <<"0", "1", "2", "3", "4", "5", "6", "7", "8", "9">>
UpperChars == <<"A", "B", "C", "D", "E", "F", "G", "H", "I", "J", "K", "L", "M",
                "N", "O", "P", "Q", "R", "S", "T", "U", "V", "W", "X", "Y", "Z">>
Uppers == {UpperChars[i] : i \in 1..26}

\* s.isdigit() (ASCII)
IsDigit(s) == s # <<>> /\ \A i \in 1..Len(s) : s[i] \in Digits

\* str(n) of an int
RECURSIVE NatStr(_)
NatStr(n) ==
  IF n < 10 THEN <<DigitChars[n + 1]>>
  ELSE NatStr(n \div 10) \o <<DigitChars[(n % 10) + 1]>>

IntStr(n) == IF n < 0 THEN <<"-">> \o NatStr(-n) ELSE NatStr(n)

DigitVal(c) == CHOOSE d \in 0..9 : DigitChars[d + 1] = c

\* int(s) of a string of digits
RECURSIVE ParseNat(_)
ParseNat(s) ==
  IF s = <<>> THEN 0
  ELSE ParseNat(SubSeq(s, 1, Len(s) - 1)) * 10 + DigitVal(s[Len(s)])

RECURSIVE Pow10(_)
Pow10(d) == IF d = 0 THEN 1 ELSE 10 * Pow10(d - 1)

---------------------------------------------------------------------------
(* Scalar cell values: empty | integer | real | string.  A real is         *)
(* m / 10^d with d = 0 or m not divisible by 10 (reals that Python prints  *)
(* in positional notation).                                                *)

NoneV == [k |-> "none"]
IntV(n) == [k |-> "int", n |-> n]
RealV(m, d) == [k |-> "real", m |-> m, d |-> d]
StrV(s) == [k |-> "str", s |-> s]

RECURSIVE NormReal(_, _)
NormReal(m, d) ==
  IF d > 0 /\ m % 10 = 0 THEN NormReal(m \div 10, d - 1) ELSE RealV(m, d)

\* d digits of n, zero padded on the left
RECURSIVE PadNat(_, _)
PadNat(n, d) == IF d = 0 THEN <<>> ELSE PadNat(n \div 10, d - 1) \o <<DigitChars[(n % 10) + 1]>>

\* str(x) of a float
RealStr(m, d) ==
  LET a == IF m < 0 THEN -m ELSE m
      sign == IF m < 0 THEN <<"-">> ELSE <<>>
  IN  sign \o NatStr(a \div Pow10(d)) \o <<".">> \o
      (IF d = 0 THEN <<"0">> ELSE PadNat(a % Pow10(d), d))

\* str(value) as excel_parser.py applies it to a non-None cell value
PyStr(v) ==
  CASE v.k = "int" -> IntStr(v.n)
    [] v.k = "real" -> RealStr(v.m, v.d)
    [] v.k = "str" -> v.s
    [] OTHER -> <<"N", "o", "n", "e">>

\* float(s) for a text of digits, '.' and '-': [ok, v].  Python accepts
\* [-]digits[.digits] and [-].digits; anything else raises ValueError.
FloatOf(s) ==
  LET neg == s # <<>> /\ s[1] = "-"
      body == IF neg THEN Tail(s) ELSE s
      dots == {i \in 1..Len(body) : body[i] = "."}
      ip == IF dots = {} THEN body ELSE SubSeq(body, 1, Min(dots) - 1)
      fp == IF dots = {} THEN <<>> ELSE SubSeq(body, Min(dots) + 1, Len(body))
      ok == /\ Cardinality(dots) <= 1
            /\ \A i \in 1..Len(body) : body[i] \in Digits \cup {"."}
            /\ Len(ip) + Len(fp) > 0
      mag == ParseNat(ip \o fp)
  IN  IF ok THEN [ok |-> TRUE, v |-> NormReal(IF neg THEN -mag ELSE mag, Len(fp))]
      ELSE [ok |-> FALSE, v |-> NoneV]

---------------------------------------------------------------------------
(* utils.py: reference arithmetic                                          *)

Ord(c) == CHOOSE i \in 1..26 : UpperChars[i] = c

RECURSIVE Pow26(_)
Pow26(d) == IF d = 0 THEN 1 ELSE 26 * Pow26(d - 1)

\* column_letter_to_index: sum of (ord(letter) - ord('A') + 1) * 26^(len - i - 1)
RECURSIVE column_letter_to_index(_)
column_letter_to_index(letters) ==
  IF letters = <<>> THEN 0
  ELSE Ord(letters[1]) * Pow26(Len(letters) - 1) + column_letter_to_index(Tail(letters))

\* parse_cell_reference: re.match(r'([A-Z]+)(\d+)', cell_ref) matches a prefix
\* of cell_ref; [ok, letters, col, row], ~ok is the ValueError
parse_cell_reference(cell_ref) ==
  LET nonU == {i \in 1..Len(cell_ref) : cell_ref[i] \notin Uppers}
      a == IF nonU = {} THEN Len(cell_ref) ELSE Min(nonU) - 1
      nonD == {i \in (a + 1)..Len(cell_ref) : cell_ref[i] \notin Digits}
      b == IF nonD = {} THEN Len(cell_ref) ELSE Min(nonD) - 1
      column_letters == SubSeq(cell_ref, 1, a)
  IN  IF a >= 1 /\ b > a
      THEN [ok |-> TRUE, letters |-> column_letters,
            col |-> column_letter_to_index(column_letters),
            row |-> ParseNat(SubSeq(cell_ref, a + 1, b))]
      ELSE [ok |-> FALSE, letters |-> <<>>, col |-> 0, row |-> 0]

\* a changed conversion: the remainder is taken without the decrement
RECURSIVE column_index_to_letter_rem(_)
column_index_to_letter_rem(n) ==
  IF n <= 0 THEN <<>>
  ELSE column_index_to_letter_rem(n \div 26) \o <<UpperChars[(n % 26) + 1]>>

\* column_index_to_letter, for column_index >= 1 (it raises ValueError below 1)
RECURSIVE column_index_to_letter(_)
column_index_to_letter(n) ==
  IF n <= 0 THEN <<>>
  ELSE column_index_to_letter((n - 1) \div 26) \o <<UpperChars[((n - 1) % 26) + 1]>>

---------------------------------------------------------------------------
(* Parsed YAML / JSON values (what yaml.safe_load and json.loads return):  *)
(* NoneV, IntV, RealV, StrV and                                            *)
(*   [k |-> "bool", b], [k |-> "list", items], [k |-> "map", items]        *)
(* where a map's items is the insertion-ordered sequence of                *)
(* [key |-> value, val |-> value] (a Python dict).                         *)

BoolV(b) == [k |-> "bool", b |-> b]
ListV(items) == [k |-> "list", items |-> items]
MapV(items) == [k |-> "map", items |-> items]
EmptyMap == MapV(<<>>)
\* the value openpyxl hands out for a descriptor attribute that was never
\* set (Color.theme of an RGB colour): an object that is not an int
UnsetV == [k |-> "unset"]

IsMap(v) == v.k = "map"
MapHas(m, key) == \E i \in 1..Len(m.items) : m.items[i].key = key
MapGet(m, key) == m.items[CHOOSE i \in 1..Len(m.items) : m.items[i].key = key].val
\* d[key] = val: a new key goes last, an existing key keeps its place
MapSet(m, key, val) ==
  IF MapHas(m, key)
  THEN MapV([i \in 1..Len(m.items) |->
              IF m.items[i].key = key THEN [key |-> key, val |-> val] ELSE m.items[i]])
  ELSE MapV(Append(m.items, [key |-> key, val |-> val]))
Entry(key, val) == [key |-> key, val |-> val]

\* parser results
Fail == [ok |-> FALSE, v |-> NoneV, i |-> 0]
Ok(v, i) == [ok |-> TRUE, v |-> v, i |-> i]

\* the first index >= i of s that holds no whitespace (Len(s) + 1 if none)
SkipWs(s, i) ==
  LET rest == {j \in i..Len(s) : s[j] \notin WS}
  IN  IF rest = {} THEN Len(s) + 1 ELSE Min(rest)

\* YAML 1.1 implicit resolution of a plain scalar (the part used here):
\* null, bool, int, float; any other text is a str
NullWords == {<<"~">>, <<"n","u","l","l">>, <<"N","u","l","l">>, <<"N","U","L","L">>}
TrueWords == {<<"t","r","u","e">>, <<"T","r","u","e">>, <<"T","R","U","E">>,
              <<"y","e","s">>, <<"Y","e","s">>, <<"Y","E","S">>,
              <<"o","n">>, <<"O","n">>, <<"O","N">>}
FalseWords == {<<"f","a","l","s","e">>, <<"F","a","l","s","e">>, <<"F","A","L","S","E">>,
               <<"n","o">>, <<"N","o">>, <<"N","O">>,
               <<"o","f","f">>, <<"O","f","f">>, <<"O","F","F">>}

Unsigned(s) == IF s # <<>> /\ s[1] \in {"-", "+"} THEN Tail(s) ELSE s
LooksInt(s) == IsDigit(Unsigned(s))
LooksFloat(s) ==
  LET b == Unsigned(s)
      dots == {i \in 1..Len(b) : b[i] = "."}
  IN  /\ Cardinality(dots) = 1
      /\ Len(b) > 1
      /\ b[1] \in Digits
      /\ \A i \in 1..Len(b) : b[i] \in Digits \cup {"."}
\* YYYY-MM-DD...: the timestamp resolver
LooksTimestamp(s) ==
  /\ Len(s) >= 10
  /\ \A i \in {1, 2, 3, 4, 6, 7, 9, 10} : s[i] \in Digits
  /\ s[5] = "-" /\ s[8] = "-"
\* "=" alone resolves to the YAML value tag, "<<" to merge
ResolvesNonStr(s) ==
  \/ s \in NullWords \/ s \in TrueWords \/ s \in FalseWords
  \/ LooksInt(s) \/ LooksFloat(s) \/ LooksTimestamp(s)
  \/ s = <<"=">> \/ s = <<"<","<">>

Resolve(s) ==
  LET neg == s[1] = "-" IN
  CASE s = <<>> \/ s \in NullWords -> NoneV
    [] s \in TrueWords -> BoolV(TRUE)
    [] s \in FalseWords -> BoolV(FALSE)
    [] LooksInt(s) -> IntV(IF neg THEN -ParseNat(Unsigned(s)) ELSE ParseNat(Unsigned(s)))
    [] LooksFloat(s) -> FloatOf(IF s[1] = "+" THEN Tail(s) ELSE s).v
    [] OTHER -> StrV(s)

---------------------------------------------------------------------------
(* Flow values: JSON as json.loads reads it (lax = FALSE) and the YAML     *)
(* flow style, a superset with single quotes and plain scalars             *)
(* (lax = TRUE).  Strings hold no backslash escapes in this model.         *)

DQ == "\""
SQ == "'"

RECURSIVE ParseValue(_, _, _), ParseMembers(_, _, _, _), ParseElements(_, _, _, _)

\* a quoted string starting at s[i] = q
ParseQuoted(s, i, q) ==
  LET close == {j \in (i + 1)..Len(s) : s[j] = q}
  IN  IF close = {} THEN Fail
      ELSE Ok(StrV(SubSeq(s, i + 1, Min(close) - 1)), Min(close) + 1)

\* a run of characters up to a flow terminator
PlainEnd(s, i) ==
  LET stop == {j \in i..Len(s) : s[j] \in {",", "]", "}", "\n"}
                                 \/ (s[j] = ":" /\ (j = Len(s) \/ s[j + 1] \in WS))}
  IN  IF stop = {} THEN Len(s) + 1 ELSE Min(stop)

ParseWord(s, i, lax) ==
  LET e == PlainEnd(s, i)
      w == Strip(SubSeq(s, i, e - 1))
  IN  IF w = <<>> THEN Fail
      ELSE IF lax THEN Ok(Resolve(w), e)
      ELSE IF w = <<"t","r","u","e">> THEN Ok(BoolV(TRUE), e)
      ELSE IF w = <<"f","a","l","s","e">> THEN Ok(BoolV(FALSE), e)
      ELSE IF w = <<"n","u","l","l">> THEN Ok(NoneV, e)
      ELSE IF w[1] # "+" /\ (IsDigit(Unsigned(w)) \/ (LooksFloat(w) /\ w[Len(w)] # "."))
           THEN Ok(Resolve(w), e)
      ELSE Fail

ParseValue(s, i0, lax) ==
  LET i == SkipWs(s, i0) IN
  IF i > Len(s) THEN Fail
  ELSE CASE s[i] = "{" -> ParseMembers(s, i + 1, lax, <<>>)
         [] s[i] = "[" -> ParseElements(s, i + 1, lax, <<>>)
         [] s[i] = DQ -> ParseQuoted(s, i, DQ)
         [] s[i] = SQ -> IF lax THEN ParseQuoted(s, i, SQ) ELSE Fail
         [] OTHER -> ParseWord(s, i, lax)

\* after "{" or after a "," of an object; acc holds the entries read so far
ParseMembers(s, i0, lax, acc) ==
  LET i == SkipWs(s, i0) IN
  IF i > Len(s) THEN Fail
  ELSE IF s[i] = "}" /\ acc = <<>> THEN Ok(EmptyMap, i + 1)
  ELSE
    LET key == ParseValue(s, i, lax)
        c == SkipWs(s, key.i)
    IN  IF ~key.ok \/ (~lax /\ key.v.k # "str") \/ key.v.k \in {"map", "list"} THEN Fail
        ELSE IF c > Len(s) \/ s[c] # ":" THEN Fail
        ELSE
          LET val == ParseValue(s, c + 1, lax)
              d == SkipWs(s, val.i)
              m == MapSet(MapV(acc), key.v, val.v)
          IN  IF ~val.ok \/ d > Len(s) THEN Fail
              ELSE IF s[d] = "}" THEN Ok(m, d + 1)
              ELSE IF s[d] = "," THEN ParseMembers(s, d + 1, lax, m.items)
              ELSE Fail

ParseElements(s, i0, lax, acc) ==
  LET i == SkipWs(s, i0) IN
  IF i > Len(s) THEN Fail
  ELSE IF s[i] = "]" /\ acc = <<>> THEN Ok(ListV(<<>>), i + 1)
  ELSE
    LET val == ParseValue(s, i, lax)
        d == SkipWs(s, val.i)
    IN  IF ~val.ok \/ d > Len(s) THEN Fail
        ELSE IF s[d] = "]" THEN Ok(ListV(Append(acc, val.v)), d + 1)
        ELSE IF s[d] = "," THEN ParseElements(s, d + 1, lax, Append(acc, val.v))
        ELSE Fail

\* a whole text as one flow value: nothing but whitespace may follow
ParseFlowDoc(s, lax) ==
  LET r == ParseValue(s, 1, lax)
  IN  IF r.ok /\ SkipWs(s, r.i) > Len(s) THEN r ELSE Fail

\* json.loads(s): [ok, v]; ~ok is json.JSONDecodeError
json_loads(s) == ParseFlowDoc(s, FALSE)

---------------------------------------------------------------------------
(* yaml.dump(data, default_flow_style=False, sort_keys=False): the block   *)
(* style PyYAML writes for the mappings the encoder builds.  Strings are   *)
(* single-line printable text shorter than the 80-column fold.             *)

\* characters that, leading a scalar, forbid the plain style
IndicatorFirst == {"#", ",", "[", "]", "{", "}", "&", "*", "!", "|", ">", SQ, DQ, "%", "@"}

\* whether PyYAML must quote the str s in a block context
NeedsQuote(s) ==
  \/ s = <<>>
  \/ s[1] \in IndicatorFirst
  \/ (s[1] \in {"-", "?", ":"} /\ (Len(s) = 1 \/ s[2] = " "))
  \/ s[1] = " " \/ s[Len(s)] = " "
  \/ s[Len(s)] = ":"
  \/ Contains(s, <<":", " ">>) \/ Contains(s, <<" ", "#">>)
  \/ StartsWith(s, <<"-", "-", "-">>) \/ StartsWith(s, <<".", ".", ".">>)
  \/ ResolvesNonStr(s)

\* the tag PyYAML's Dumper writes for an arbitrary Python object
PythonObjectTag == <<"!","!","p","y","t","h","o","n","/","o","b","j","e","c","t">>

YamlScalar(v) ==
  CASE v.k = "str" ->
         IF NeedsQuote(v.s) THEN <<SQ>> \o Replace(v.s, <<SQ>>, <<SQ, SQ>>) \o <<SQ>> ELSE v.s
    [] v.k = "int" -> IntStr(v.n)
    [] v.k = "real" -> RealStr(v.m, v.d)
    [] v.k = "bool" -> IF v.b THEN <<"t","r","u","e">> ELSE <<"f","a","l","s","e">>
    [] v.k = "none" -> <<"n","u","l","l">>
    [] v.k = "unset" -> PythonObjectTag
    [] v.k = "map" -> <<"{", "}">>
    [] v.k = "list" -> <<"[", "]">>

Spaces(n) == [i \in 1..n |-> " "]

RECURSIVE DumpMap(_, _), DumpList(_, _)

\* a nested value after "key:" or "-"
DumpChild(v, indent) ==
  IF v.k = "map" /\ v.items # <<>> THEN <<"\n">> \o DumpMap(v.items, indent + 2)
  ELSE IF v.k = "list" /\ v.items # <<>> THEN <<"\n">> \o DumpList(v.items, indent)
  ELSE <<" ">> \o YamlScalar(v) \o <<"\n">>

DumpMap(items, indent) ==
  IF items = <<>> THEN <<>>
  ELSE Spaces(indent) \o YamlScalar(items[1].key) \o <<":">>
       \o DumpChild(items[1].val, indent) \o DumpMap(Tail(items), indent)

DumpList(items, indent) ==
  IF items = <<>> THEN <<>>
  ELSE Spaces(indent) \o <<"-">> \o DumpChild(items[1], indent) \o DumpList(Tail(items), indent)

yaml_dump(v) ==
  IF v.k = "map" /\ v.items # <<>> THEN DumpMap(v.items, 0)
  ELSE IF v.k = "list" /\ v.items # <<>> THEN DumpList(v.items, 0)
  ELSE YamlScalar(v) \o <<"\n">>

---------------------------------------------------------------------------
(* yaml.safe_load(text): block mappings, block sequences (also indentless  *)
(* under a key), flow values, quoted and plain scalars, comment lines.     *)
(* ~ok is yaml.YAMLError.  Tags, anchors and aliases are not part of the   *)
(* model's documents except the python/object tag, which safe_load         *)
(* refuses with a ConstructorError (a YAMLError).                          *)

RECURSIVE SortedSeq(_)
SortedSeq(S) == IF S = {} THEN <<>> ELSE <<Min(S)>> \o SortedSeq(S \ {Min(S)})

Indent(line) ==
  LET non == {i \in 1..Len(line) : line[i] # " "}
  IN  IF non = {} THEN Len(line) ELSE Min(non) - 1

\* the content lines of a text: [ind, body], blank and comment lines dropped
YamlLines(text) ==
  LET raw == Split(text, <<"\n">>)
      keep == {i \in 1..Len(raw) : Strip(raw[i]) # <<>> /\ Strip(raw[i])[1] # "#"}
      idx == SortedSeq(keep)
  IN  [j \in 1..Len(idx) |-> [ind |-> Indent(raw[idx[j]]), body |-> Strip(raw[idx[j]])]]

IsSeqLine(body) == body = <<"-">> \/ StartsWith(body, <<"-", " ">>)

\* "key: rest" or "key:" : [ok, key, rest]
KeySplit(body) ==
  IF body[1] \in {SQ, DQ}
  THEN LET q == ParseQuoted(body, 1, body[1])
       IN  IF q.ok /\ q.i <= Len(body) /\ body[q.i] = ":"
              /\ (q.i = Len(body) \/ body[q.i + 1] = " ")
           THEN [ok |-> TRUE, key |-> q.v, rest |-> Strip(SubSeq(body, q.i + 1, Len(body)))]
           ELSE [ok |-> FALSE, key |-> NoneV, rest |-> <<>>]
  ELSE LET cut == {j \in 1..Len(body) : body[j] = ":" /\ (j = Len(body) \/ body[j + 1] = " ")}
       IN  IF cut = {} \/ Min(cut) = 1 THEN [ok |-> FALSE, key |-> NoneV, rest |-> <<>>]
           ELSE [ok |-> TRUE, key |-> Resolve(Strip(SubSeq(body, 1, Min(cut) - 1))),
                 rest |-> Strip(SubSeq(body, Min(cut) + 1, Len(body)))]

\* an inline value: flow, quoted or plain scalar
InlineValue(t) ==
  IF t = <<>> THEN Ok(NoneV, 1)
  ELSE IF t[1] \in {"{", "["} THEN ParseFlowDoc(t, TRUE)
  ELSE IF t[1] \in {SQ, DQ}
       THEN LET q == ParseQuoted(t, 1, t[1])
            IN  IF q.ok /\ q.i = Len(t) + 1 THEN q ELSE Fail
  ELSE IF t[1] \in {"!", "&", "*", "%", "@"} THEN Fail
  ELSE LET hash == FindAll(t, <<" ", "#">>)
           u == IF hash = {} THEN t ELSE Strip(SubSeq(t, 1, Min(hash) - 1))
       IN  IF KeySplit(u).ok THEN Fail ELSE Ok(Resolve(u), 1)

RECURSIVE BlockNode(_), BlockMap(_, _, _), BlockSeq(_, _, _)

\* the lines of one entry: from index a up to the next start (or the end)
EntryEnd(starts, j, n) == IF j < Len(starts) THEN starts[j + 1] - 1 ELSE n

BlockNode(lines) ==
  LET n == lines[1].ind
      first == lines[1].body
  IN  IF \E i \in 1..Len(lines) : lines[i].ind < n THEN Fail
      ELSE IF IsSeqLine(first)
        THEN LET top == {i \in 1..Len(lines) : lines[i].ind = n}
             IN  IF \E i \in top : ~IsSeqLine(lines[i].body) THEN Fail
                 ELSE BlockSeq(lines, SortedSeq(top), <<>>)
      ELSE IF first[1] \notin {"{", "["} /\ KeySplit(first).ok
        THEN LET top == {i \in 1..Len(lines) : lines[i].ind = n /\ ~IsSeqLine(lines[i].body)}
             IN  IF \E i \in top : ~KeySplit(lines[i].body).ok THEN Fail
                 ELSE BlockMap(lines, SortedSeq(top), EmptyMap)
      ELSE IF Len(lines) = 1 THEN InlineValue(first)
      ELSE IF first[1] \in {"{", "["}
        THEN ParseFlowDoc(Join([i \in 1..Len(lines) |-> lines[i].body], <<"\n">>), TRUE)
      ELSE IF \E i \in 1..Len(lines) : KeySplit(lines[i].body).ok \/ IsSeqLine(lines[i].body)
        THEN Fail
      ELSE Ok(StrV(Join([i \in 1..Len(lines) |-> lines[i].body], <<" ">>)), 1)

BlockMap(lines, starts, acc) ==
  IF starts = <<>> THEN Ok(acc, 1)
  ELSE
    LET a == starts[1]
        b == EntryEnd(starts, 1, Len(lines))
        ks == KeySplit(lines[a].body)
        nested == SubSeq(lines, a + 1, b)
        val == IF ks.rest # <<>>
               THEN (IF nested # <<>> THEN Fail ELSE InlineValue(ks.rest))
               ELSE (IF nested = <<>> THEN Ok(NoneV, 1) ELSE BlockNode(nested))
    IN  IF ~val.ok THEN Fail
        ELSE BlockMap(lines, Tail(starts), MapSet(acc, ks.key, val.v))

BlockSeq(lines, starts, acc) ==
  IF starts = <<>> THEN Ok(ListV(acc), 1)
  ELSE
    LET a == starts[1]
        b == EntryEnd(starts, 1, Len(lines))
        t == Strip(Tail(lines[a].body))
        nested == SubSeq(lines, a + 1, b)
        head == IF t = <<>> THEN <<>> ELSE <<[ind |-> lines[a].ind + 2, body |-> t]>>
        val == IF head \o nested = <<>> THEN Ok(NoneV, 1) ELSE BlockNode(head \o nested)
    IN  IF ~val.ok THEN Fail
        ELSE BlockSeq(lines, Tail(starts), Append(acc, val.v))

\* yaml.safe_load(text): [ok, v]; an empty document loads as None
yaml_safe_load(text) ==
  LET lines == YamlLines(text)
  IN  IF lines = <<>> THEN Ok(NoneV, 1) ELSE BlockNode(lines)

---------------------------------------------------------------------------
(* The literal texts of the format                                         *)

SEP == <<"-","-","-">>
HEADER_SECTION == <<"M","D","N",":","H","E","A","D","E","R"," ","Y","A","M","L">>
SHEET_SECTION == <<"M","D","N",":","S","H","E","E","T"," ","C","S","V">>
FORMULAS_SECTION == <<"M","D","N",":","F","O","R","M","U","L","A","S"," ","J","S","O","N">>
FORMAT_SECTION == <<"M","D","N",":","F","O","R","M","A","T"," ","J","S","O","N">>
AI_PROMPT_SECTION == <<"M","D","N",":","A","I","_","P","R","O","M","P","T">>
MARK_PREFIX == <<"-","-","-"," ">>
MDN_PREFIX == <<"M","D","N",":">>
NAME_ATTR == <<" ","n","a","m","e","=">>
NAME_EQ == <<"n","a","m","e","=">>
CONTEXT_MARK ==
  <<"#"," ","o","p","t","i","o","n","a","l"," ","c","o","n","t","e","x","t"," ","s","e","c","t",
    "i","o","n">>
END_DOCUMENT == <<"E","N","D"," ","D","O","C","U","M","E","N","T">>
K_source == <<"s","o","u","r","c","e">>
K_version == <<"v","e","r","s","i","o","n">>
K_created == <<"c","r","e","a","t","e","d">>
K_sheets == <<"s","h","e","e","t","s">>
K_purpose == <<"p","u","r","p","o","s","e">>
K_keyMetrics == <<"k","e","y","M","e","t","r","i","c","s">>
K_businessRules == <<"b","u","s","i","n","e","s","s","R","u","l","e","s">>
K_numberFormat == <<"n","u","m","b","e","r","F","o","r","m","a","t">>
K_bold == <<"b","o","l","d">>
K_italic == <<"i","t","a","l","i","c">>
K_theme == <<"t","h","e","m","e">>
K_color == <<"c","o","l","o","r">>
GENERAL == <<"G","e","n","e","r","a","l">>
VERSION_1_0 == <<"1",".","0">>
UNKNOWN_XLSX == <<"u","n","k","n","o","w","n",".","x","l","s","x">>
CTX_purpose ==
  <<"e","x","c","e","l","_","t","o","_","m","d","n","_","c","o","n","v","e","r","s","i","o",
    "n">>
CTX_metric1 == <<"d","a","t","a","_","i","n","t","e","g","r","i","t","y">>
CTX_metric2 == <<"f","o","r","m","u","l","a","_","p","r","e","s","e","r","v","a","t","i","o","n">>
CTX_rule1 ==
  <<"A","l","l"," ","f","o","r","m","u","l","a","s"," ","m","u","s","t"," ","b","e"," ","p","r",
    "e","s","e","r","v","e","d">>
CTX_rule2 ==
  <<"D","a","t","a"," ","t","y","p","e","s"," ","m","a","i","n","t","a","i","n","e","d"," ","t",
    "h","r","o","u","g","h"," ","f","o","r","m","a","t","t","i","n","g">>
CTX_rule3 ==
  <<"S","h","e","e","t"," ","s","t","r","u","c","t","u","r","e"," ","p","r","e","s","e","r","v",
    "e","d">>
FILE_NAME == <<"w",".","x","l","s","x">>
TIMESTAMP == <<"2","0","2","5","-","0","1","-","1","5","T","1","2",":","0","0",":","0","0","Z">>

---------------------------------------------------------------------------
(* csv.writer / csv.reader, default "excel" dialect: delimiter ',',        *)
(* quotechar '"', doublequote, QUOTE_MINIMAL, lineterminator '\r\n',       *)
(* not strict.                                                             *)

CsvSpecial == {",", DQ, "\r", "\n"}

\* a changed writer: no field is quoted
CsvFieldBare(f) == f

CsvField(f) ==
  IF \E i \in 1..Len(f) : f[i] \in CsvSpecial
  THEN <<DQ>> \o Replace(f, <<DQ>>, <<DQ, DQ>>) \o <<DQ>>
  ELSE f

\* csv_writer.writerow(row): a lone empty field is written as ""
csv_writerow(row) ==
  LET body == Join([i \in 1..Len(row) |-> CsvField(row[i])], <<",">>)
  IN  (IF Len(row) > 0 /\ body = <<>> THEN <<DQ, DQ>> ELSE body) \o <<"\r", "\n">>

\* list(csv.reader([line]))[0]: the reader's state machine over one line;
\* [ok, row], ~ok is csv.Error (text after a bare line break)
RECURSIVE CsvStep(_, _, _, _, _)
CsvStep(s, i, st, fld, row) ==
  IF i > Len(s)
  THEN IF st \in {"START_RECORD", "EAT_CRNL"} THEN [ok |-> TRUE, row |-> row]
       ELSE [ok |-> TRUE, row |-> Append(row, fld)]
  ELSE
    LET c == s[i]
        nl == c \in {"\r", "\n"}
    IN  CASE st = "START_RECORD" ->
               IF nl THEN CsvStep(s, i + 1, "EAT_CRNL", <<>>, row)
               ELSE CsvStep(s, i, "START_FIELD", <<>>, row)
          [] st = "START_FIELD" ->
               IF nl THEN CsvStep(s, i + 1, "EAT_CRNL", <<>>, Append(row, <<>>))
               ELSE IF c = DQ THEN CsvStep(s, i + 1, "IN_QUOTED_FIELD", <<>>, row)
               ELSE IF c = "," THEN CsvStep(s, i + 1, "START_FIELD", <<>>, Append(row, <<>>))
               ELSE CsvStep(s, i + 1, "IN_FIELD", <<c>>, row)
          [] st = "IN_FIELD" ->
               IF nl THEN CsvStep(s, i + 1, "EAT_CRNL", <<>>, Append(row, fld))
               ELSE IF c = "," THEN CsvStep(s, i + 1, "START_FIELD", <<>>, Append(row, fld))
               ELSE CsvStep(s, i + 1, "IN_FIELD", Append(fld, c), row)
          [] st = "IN_QUOTED_FIELD" ->
               IF c = DQ THEN CsvStep(s, i + 1, "QUOTE_IN_QUOTED_FIELD", fld, row)
               ELSE CsvStep(s, i + 1, "IN_QUOTED_FIELD", Append(fld, c), row)
          [] st = "QUOTE_IN_QUOTED_FIELD" ->
               IF c = DQ THEN CsvStep(s, i + 1, "IN_QUOTED_FIELD", Append(fld, c), row)
               ELSE IF c = "," THEN CsvStep(s, i + 1, "START_FIELD", <<>>, Append(row, fld))
               ELSE IF nl THEN CsvStep(s, i + 1, "EAT_CRNL", <<>>, Append(row, fld))
               ELSE CsvStep(s, i + 1, "IN_FIELD", Append(fld, c), row)
          [] st = "EAT_CRNL" ->
               IF nl THEN CsvStep(s, i + 1, "EAT_CRNL", <<>>, row)
               ELSE [ok |-> FALSE, row |-> <<>>]

csv_reader_row(line) == CsvStep(line, 1, "START_RECORD", <<>>, <<>>)

---------------------------------------------------------------------------
(* The workbook collaborator (openpyxl).  A sheet holds the cells present  *)
(* in the file, keyed by <<row, column>>; reading any other cell gives a   *)
(* default cell.  A font colour is absent, theme-indexed or RGB (stored by *)
(* openpyxl as eight hex digits, alpha first).                             *)

NoColor == [type |-> "none", theme |-> 0, rgb |-> <<>>]
ThemeColor(t) == [type |-> "theme", theme |-> t, rgb |-> <<>>]
RgbColor(argb) == [type |-> "rgb", theme |-> 0, rgb |-> argb]

FontOf(b, i, c) == [bold |-> b, italic |-> i, color |-> c]
\* the workbook's default font: theme colour 1
DefaultFont == FontOf(FALSE, FALSE, ThemeColor(1))
\* openpyxl.styles.Font(bold=True), Font(italic=True): no colour
NewFont(b, i) == FontOf(b, i, NoColor)

CellOf(v, f, nf) == [value |-> v, font |-> f, number_format |-> nf]
DefaultCell == CellOf(NoneV, DefaultFont, GENERAL)
Plain(v) == CellOf(v, DefaultFont, GENERAL)

SheetOf(name, cells) == [name |-> name, cells |-> cells]

\* Worksheet.max_row / max_column: 1 for a sheet without cells
max_row(sheet) ==
  IF DOMAIN sheet.cells = {} THEN 1 ELSE Max({p[1] : p \in DOMAIN sheet.cells})
max_column(sheet) ==
  IF DOMAIN sheet.cells = {} THEN 1 ELSE Max({p[2] : p \in DOMAIN sheet.cells})

\* sheet.cell(row=r, column=c)
CellAt(sheet, r, c) ==
  IF <<r, c>> \in DOMAIN sheet.cells THEN sheet.cells[<<r, c>>] ELSE DefaultCell

sheetnames(wb) == [i \in 1..Len(wb) |-> wb[i].name]

\* for row in range(1, max_row + 1): for col in range(1, max_col + 1)
RowMajor(sheet) ==
  LET R == max_row(sheet)
      C == max_column(sheet)
  IN  [k \in 1..(R * C) |-> <<((k - 1) \div C) + 1, ((k - 1) % C) + 1>>]

---------------------------------------------------------------------------
(* excel_parser.py: ExcelToMDNConverter                                    *)

\* _generate_header: the three fragments of the header and of the context
header_data(wb) ==
  MapV(<<Entry(StrV(K_source), StrV(FILE_NAME)),
         Entry(StrV(K_version), StrV(VERSION_1_0)),
         Entry(StrV(K_created), StrV(TIMESTAMP)),
         Entry(StrV(K_sheets),
               ListV([i \in 1..Len(wb) |-> StrV(wb[i].name)]))>>)

context_data ==
  MapV(<<Entry(StrV(K_purpose), StrV(CTX_purpose)),
         Entry(StrV(K_keyMetrics), ListV(<<StrV(CTX_metric1), StrV(CTX_metric2)>>)),
         Entry(StrV(K_businessRules),
               ListV(<<StrV(CTX_rule1), StrV(CTX_rule2), StrV(CTX_rule3)>>))>>)

generate_header(wb) ==
  << MARK_PREFIX \o HEADER_SECTION, yaml_dump(header_data(wb)), SEP,
     CONTEXT_MARK, yaml_dump(context_data), SEP >>

\* _sheet_to_csv
sheet_to_csv(sheet) ==
  LET R == max_row(sheet)
      C == max_column(sheet)
      row_data(r) == [c \in 1..C |->
                        LET value == CellAt(sheet, r, c).value
                        IN  IF value.k = "none" THEN <<>> ELSE PyStr(value)]
      buffer == Join([r \in 1..R |-> csv_writerow(row_data(r))], <<>>)
  IN  IF R = 0 \/ C = 0 THEN <<>> ELSE Strip(buffer)

\* _generate_sheets
RECURSIVE generate_sheets(_)
generate_sheets(wb) ==
  IF wb = <<>> THEN <<>>
  ELSE << MARK_PREFIX \o SHEET_SECTION \o NAME_ATTR \o wb[1].name,
          sheet_to_csv(wb[1]), SEP >> \o generate_sheets(Tail(wb))

\* f"{sheet_name}!{column_index_to_letter(col)}{row}"
CellKey(sheet_name, r, c) ==
  sheet_name \o <<"!">> \o column_index_to_letter(c) \o NatStr(r)

IsFormulaValue(v) == v.k = "str" /\ StartsWith(v.s, <<"=">>)

\* formulas[key] = value for the entries of one sheet, in their order
RECURSIVE SetAll(_, _)
SetAll(acc, entries) ==
  IF entries = <<>> THEN acc
  ELSE SetAll(MapSet(acc, entries[1].key, entries[1].val), Tail(entries))

\* the entries _generate_formulas adds for one sheet, row by row
FormulasOfCells(sheet) ==
  LET hits == SelectSeq(RowMajor(sheet),
                        LAMBDA p : IsFormulaValue(CellAt(sheet, p[1], p[2]).value))
  IN  [n \in 1..Len(hits) |->
         Entry(StrV(CellKey(sheet.name, hits[n][1], hits[n][2])),
               CellAt(sheet, hits[n][1], hits[n][2]).value)]

\* the formulas dict of _generate_formulas, one sheet after the other
RECURSIVE formulas_of(_, _)
formulas_of(wb, acc) ==
  IF wb = <<>> THEN acc
  ELSE formulas_of(Tail(wb), SetAll(acc, FormulasOfCells(wb[1])))

generate_formulas(wb) ==
  << MARK_PREFIX \o FORMULAS_SECTION, yaml_dump(formulas_of(wb, EmptyMap)), SEP >>

\* cell.font.color.theme: unset (not an int) unless the colour is a theme colour.
\* unset is what the attribute read gives then: None or the descriptor object.
ThemeAttr(color, unset) == IF color.type = "theme" THEN IntV(color.theme) ELSE unset

\* the record _generate_formatting accumulates for one cell
FormatRecord(cell, unset) ==
  LET f == cell.font
      r1 == IF cell.number_format # <<>> /\ cell.number_format # GENERAL
            THEN MapSet(EmptyMap, StrV(K_numberFormat), StrV(cell.number_format))
            ELSE EmptyMap
      r2 == IF f.bold THEN MapSet(r1, StrV(K_bold), BoolV(TRUE)) ELSE r1
      r3 == IF f.italic THEN MapSet(r2, StrV(K_italic), BoolV(TRUE)) ELSE r2
      r4 == IF f.color.type # "none" /\ ThemeAttr(f.color, unset) # IntV(1)
            THEN MapSet(r3, StrV(K_theme), ThemeAttr(f.color, unset)) ELSE r3
      rgb == IF StartsWith(f.color.rgb, <<"F", "F">>)
             THEN SubSeq(f.color.rgb, 3, Len(f.color.rgb)) ELSE f.color.rgb
      r5 == IF f.color.type = "rgb" /\ f.color.rgb # <<>>
            THEN MapSet(r4, StrV(K_color), StrV(<<"#">> \o rgb)) ELSE r4
  IN  r5

\* formatting[format_key][attr] = value for every attribute of the record
MergeRecord(acc, key, rec) ==
  IF MapHas(acc, key) THEN MapSet(acc, key, SetAll(MapGet(acc, key), rec.items))
  ELSE MapSet(acc, key, rec)

RECURSIVE MergeAll(_, _)
MergeAll(acc, entries) ==
  IF entries = <<>> THEN acc
  ELSE MergeAll(MergeRecord(acc, entries[1].key, entries[1].val), Tail(entries))

\* the records of one sheet that hold an attribute, row by row (a cell without
\* one gets an empty record, which line 237 drops)
FormattingOfCells(sheet, unset) ==
  LET hits == SelectSeq(RowMajor(sheet),
                        LAMBDA p : FormatRecord(CellAt(sheet, p[1], p[2]), unset).items # <<>>)
  IN  [n \in 1..Len(hits) |->
         Entry(StrV(CellKey(sheet.name, hits[n][1], hits[n][2])),
               FormatRecord(CellAt(sheet, hits[n][1], hits[n][2]), unset))]

RECURSIVE formatting_of(_, _, _)
formatting_of(wb, unset, acc) ==
  IF wb = <<>> THEN acc
  ELSE formatting_of(Tail(wb), unset, MergeAll(acc, FormattingOfCells(wb[1], unset)))

\* {k: v for k, v in formatting.items() if v}
clean_formatting(wb, unset) == formatting_of(wb, unset, EmptyMap)

\* a changed lines 235-240: the section is written whatever the map holds
generate_formatting_always(wb, unset) ==
  << MARK_PREFIX \o FORMAT_SECTION, yaml_dump(clean_formatting(wb, unset)), SEP >>

generate_formatting(wb, unset) ==
  IF clean_formatting(wb, unset).items # <<>>
  THEN << MARK_PREFIX \o FORMAT_SECTION, yaml_dump(clean_formatting(wb, unset)), SEP >>
  ELSE <<>>

\* a changed order of the calls: the formulas before the sheets
convert_fragments_swapped(wb, unset) ==
  generate_header(wb) \o generate_formulas(wb) \o generate_sheets(wb)
  \o generate_formatting(wb, unset) \o <<END_DOCUMENT>>

\* the fragments one convert_file call appends to self.mdn_content
convert_fragments(wb, unset) ==
  generate_header(wb) \o generate_sheets(wb) \o generate_formulas(wb)
  \o generate_formatting(wb, unset) \o <<END_DOCUMENT>>

---------------------------------------------------------------------------
(* mdn_parser.py: MDNToExcelConverter.  An exception that no handler of    *)
(* the converter catches ends convert_content: raised = TRUE.              *)

\* the decoder's fields after __init__
NewDecoder ==
  [sheets_data |-> <<>>, formulas |-> EmptyMap, formatting |-> EmptyMap,
   header_data |-> EmptyMap, workbook |-> <<>>]

\* self.sheets_data[sheet_name] = csv_data (a dict: a known key keeps its place)
SheetsDataSet(sd, name, rows) ==
  IF \E i \in 1..Len(sd) : sd[i].name = name
  THEN [i \in 1..Len(sd) |-> IF sd[i].name = name THEN [name |-> name, rows |-> rows] ELSE sd[i]]
  ELSE Append(sd, [name |-> name, rows |-> rows])

\* bool(v) of a loaded value
Truthy(v) ==
  CASE v.k = "none" -> FALSE
    [] v.k = "bool" -> v.b
    [] v.k = "int" -> v.n # 0
    [] v.k = "real" -> v.m # 0
    [] v.k = "str" -> v.s # <<>>
    [] v.k \in {"list", "map"} -> v.items # <<>>
    [] OTHER -> TRUE

\* len(v) raises TypeError for these
HasNoLen(v) == v.k \in {"none", "bool", "int", "real", "unset"}

\* the header's fallback on a YAMLError
DefaultHeader ==
  MapV(<<Entry(StrV(K_source), StrV(UNKNOWN_XLSX)), Entry(StrV(K_sheets), ListV(<<>>))>>)

\* _parse_header_section: the value stored, and whether the print of
\* self.header_data.get(...) raises AttributeError (the value is no dict)
parse_header_section(d, section) ==
  LET y0 == Strip(Replace(section, HEADER_SECTION, <<>>))
      y == IF Contains(y0, CONTEXT_MARK) THEN Strip(Split(y0, CONTEXT_MARK)[1]) ELSE y0
      store(r) ==
        IF r.ok THEN [d |-> [d EXCEPT !.header_data = r.v], raised |-> r.v.k # "map"]
        ELSE [d |-> [d EXCEPT !.header_data = DefaultHeader], raised |-> FALSE]
  IN  store(yaml_safe_load(y))

\* re.search(r'name=([^\s]+)', line): [found, name]
SearchName(line) ==
  LET cand == {i \in FindAll(line, NAME_EQ) :
                 i + Len(NAME_EQ) <= Len(line) /\ line[i + Len(NAME_EQ)] \notin WS}
      a == Min(cand) + Len(NAME_EQ)
      stop == {j \in a..Len(line) : line[j] \in WS}
      b == IF stop = {} THEN Len(line) ELSE Min(stop) - 1
  IN  IF cand = {} THEN [found |-> FALSE, name |-> <<>>]
      ELSE [found |-> TRUE, name |-> SubSeq(line, a, b)]

\* the loop of _parse_sheet_section over the lines: [name, rows]
RECURSIVE SheetLines(_, _, _)
SheetLines(lines, name, rows) ==
  IF lines = <<>> THEN [name |-> name, rows |-> rows]
  ELSE LET line == lines[1] IN
       IF StartsWith(line, SHEET_SECTION)
       THEN SheetLines(Tail(lines),
                       IF SearchName(line).found THEN SearchName(line).name ELSE name, rows)
       ELSE IF Strip(line) # <<>> /\ ~StartsWith(line, MDN_PREFIX)
       THEN SheetLines(Tail(lines), name, Append(rows, line))
       ELSE SheetLines(Tail(lines), name, rows)

\* a changed line 114: a name is enough, a payload is not asked for
parse_sheet_section_named(d, section) ==
  LET p == SheetLines(Split(section, <<"\n">>), <<>>, <<>>)
  IN  IF p.name # <<>>
      THEN [d |-> [d EXCEPT !.sheets_data = SheetsDataSet(@, p.name, p.rows)], raised |-> FALSE]
      ELSE [d |-> d, raised |-> FALSE]

parse_sheet_section(d, section) ==
  LET p == SheetLines(Split(section, <<"\n">>), <<>>, <<>>)
  IN  IF p.name # <<>> /\ p.rows # <<>>
      THEN [d |-> [d EXCEPT !.sheets_data = SheetsDataSet(@, p.name, p.rows)], raised |-> FALSE]
      ELSE [d |-> d, raised |-> FALSE]

\* yaml.safe_load(json_content) or {} ; {} on a YAMLError
LoadOrEmpty(section, marker) ==
  LET or_empty(r) == IF r.ok /\ Truthy(r.v) THEN r.v ELSE EmptyMap
  IN  or_empty(yaml_safe_load(Strip(Replace(section, marker, <<>>))))

\* _parse_formulas_section; the print of len(self.formulas) raises TypeError
\* for a value without a length
parse_formulas_section(d, section) ==
  LET store(v) == [d |-> [d EXCEPT !.formulas = v], raised |-> HasNoLen(v)]
  IN  store(LoadOrEmpty(section, FORMULAS_SECTION))

\* _parse_formatting_section
parse_formatting_section(d, section) ==
  LET store(v) == [d |-> [d EXCEPT !.formatting = v], raised |-> HasNoLen(v)]
  IN  store(LoadOrEmpty(section, FORMAT_SECTION))

\* a changed dispatch: a segment that starts with the context marker is
\* read as a header
parse_section_context(d, raw) ==
  LET section == Strip(raw) IN
  IF section = <<>> THEN [d |-> d, raised |-> FALSE]
  ELSE IF StartsWith(section, HEADER_SECTION) \/ StartsWith(section, CONTEXT_MARK)
  THEN parse_header_section(d, section)
  ELSE IF StartsWith(section, SHEET_SECTION) THEN parse_sheet_section(d, section)
  ELSE IF StartsWith(section, FORMULAS_SECTION) THEN parse_formulas_section(d, section)
  ELSE IF StartsWith(section, FORMAT_SECTION) THEN parse_formatting_section(d, section)
  ELSE [d |-> d, raised |-> FALSE]

\* the body of the loop of _parse_mdn_content for one segment
parse_section(d, raw) ==
  LET section == Strip(raw) IN
  IF section = <<>> THEN [d |-> d, raised |-> FALSE]
  ELSE IF StartsWith(section, HEADER_SECTION) THEN parse_header_section(d, section)
  ELSE IF StartsWith(section, SHEET_SECTION) THEN parse_sheet_section(d, section)
  ELSE IF StartsWith(section, FORMULAS_SECTION) THEN parse_formulas_section(d, section)
  ELSE IF StartsWith(section, FORMAT_SECTION) THEN parse_formatting_section(d, section)
  ELSE [d |-> d, raised |-> FALSE]

RECURSIVE parse_sections(_, _)
parse_sections(d, sections) ==
  IF sections = <<>> THEN [d |-> d, raised |-> FALSE]
  ELSE LET next(r) == IF r.raised THEN r ELSE parse_sections(r.d, Tail(sections))
       IN  next(parse_section(d, sections[1]))

\* _parse_mdn_content
parse_mdn_content(d, content) == parse_sections(d, Split(content, SEP))

\* openpyxl refuses a sheet title holding one of these (ValueError)
InvalidTitleChars == {"\\", "*", "?", ":", "/", "[", "]"}
InvalidTitle(name) == \E i \in 1..Len(name) : name[i] \in InvalidTitleChars

\* _create_workbook: a fresh workbook with one sheet per key of sheets_data
create_workbook(d) ==
  LET bad == {i \in 1..Len(d.sheets_data) : InvalidTitle(d.sheets_data[i].name)}
      n == IF bad = {} THEN Len(d.sheets_data) ELSE Min(bad) - 1
  IN  [d |-> [d EXCEPT !.workbook = [i \in 1..n |-> SheetOf(d.sheets_data[i].name, <<>>)]],
       raised |-> bad # {}]

\* the type conversion of _apply_sheet_data: [ok, v]; ~ok is float()'s ValueError
coerce(value) ==
  IF value = <<>> THEN [ok |-> TRUE, v |-> NoneV]
  ELSE IF IsDigit(value) THEN [ok |-> TRUE, v |-> IntV(ParseNat(value))]
  ELSE IF IsDigit(Replace(Replace(value, <<".">>, <<>>), <<"-">>, <<>>)) THEN FloatOf(value)
  ELSE [ok |-> TRUE, v |-> StrV(value)]

\* cell.value = v on sheet.cell(row, column): the cell exists from then on
SetValue(sheet, r, c, v) ==
  LET old == CellAt(sheet, r, c)
      new == [old EXCEPT !.value = v]
  IN  [sheet EXCEPT !.cells =
        [p \in DOMAIN sheet.cells \cup {<<r, c>>} |-> IF p = <<r, c>> THEN new ELSE sheet.cells[p]]]

SetCell(sheet, r, c, cell) ==
  [sheet EXCEPT !.cells =
    [p \in DOMAIN sheet.cells \cup {<<r, c>>} |-> IF p = <<r, c>> THEN cell ELSE sheet.cells[p]]]

\* the inner loop of _apply_sheet_data over the fields of one row
RECURSIVE ApplyFields(_, _, _, _)
ApplyFields(sheet, r, fields, c) ==
  IF c > Len(fields) THEN [sheet |-> sheet, raised |-> FALSE]
  ELSE LET x == coerce(fields[c])
       IN  IF ~x.ok THEN [sheet |-> sheet, raised |-> TRUE]
           ELSE ApplyFields(SetValue(sheet, r, c, x.v), r, fields, c + 1)

RECURSIVE ApplyRows(_, _, _)
ApplyRows(sheet, rows, r) ==
  IF r > Len(rows) THEN [sheet |-> sheet, raised |-> FALSE]
  ELSE LET parsed == csv_reader_row(rows[r])
           done == ApplyFields(sheet, r, parsed.row, 1)
       IN  IF ~parsed.ok THEN [sheet |-> sheet, raised |-> TRUE]
           ELSE IF done.raised THEN done
           ELSE ApplyRows(done.sheet, rows, r + 1)

\* _apply_sheet_data, sheet i onwards (self.workbook[sheet_name] is sheet i)
RECURSIVE apply_sheet_data(_, _)
apply_sheet_data(d, i) ==
  IF i > Len(d.sheets_data) THEN [d |-> d, raised |-> FALSE]
  ELSE LET r == ApplyRows(d.workbook[i], d.sheets_data[i].rows, 1)
           d2 == [d EXCEPT !.workbook[i] = r.sheet]
       IN  IF r.raised THEN [d |-> d2, raised |-> TRUE]
           ELSE apply_sheet_data(d2, i + 1)

\* _parse_cell_ref: re.match(r'([A-Z]+)(\d+)', cell_ref), which matches a
\* prefix of cell_ref; ~ok is the ValueError
parse_cell_ref(cell_ref) ==
  LET nonU == {i \in 1..Len(cell_ref) : cell_ref[i] \notin Uppers}
      a == IF nonU = {} THEN Len(cell_ref) ELSE Min(nonU) - 1
      nonD == {i \in (a + 1)..Len(cell_ref) : cell_ref[i] \notin Digits}
      b == IF nonD = {} THEN Len(cell_ref) ELSE Min(nonD) - 1
  IN  IF a >= 1 /\ b > a
      THEN [ok |-> TRUE, col |-> SubSeq(cell_ref, 1, a), row |-> ParseNat(SubSeq(cell_ref, a + 1, b))]
      ELSE [ok |-> FALSE, col |-> <<>>, row |-> 0]

\* the cell a formula or format key addresses: [ok, sheet, row, col];
\* ~ok when the key is skipped or the lookup raises inside the try
target_of(wb, key) ==
  LET none == [ok |-> FALSE, sheet |-> 0, row |-> 0, col |-> 0] IN
  IF key.k # "str" \/ ~Contains(key.s, <<"!">>) THEN none
  ELSE LET bang == Min(FindAll(key.s, <<"!">>))
           sheet_name == SubSeq(key.s, 1, bang - 1)
           ref == parse_cell_ref(SubSeq(key.s, bang + 1, Len(key.s)))
           hit == {i \in 1..Len(wb) : wb[i].name = sheet_name}
       IN  IF hit = {} \/ ~ref.ok \/ ref.row < 1 THEN none
           ELSE [ok |-> TRUE, sheet |-> Min(hit), row |-> ref.row,
                 col |-> column_letter_to_index(ref.col)]

\* cell.value = v is refused (ValueError) for a list or a dict
Storable(v) == v.k \in {"none", "bool", "int", "real", "str"}

\* a changed loop: the first key that addresses no cell ends it
RECURSIVE ApplyFormulaItemsAbort(_, _)
ApplyFormulaItemsAbort(wb, items) ==
  IF items = <<>> THEN wb
  ELSE LET t == target_of(wb, items[1].key)
       IN  IF ~t.ok THEN wb
           ELSE ApplyFormulaItemsAbort(
                  [wb EXCEPT ![t.sheet] = SetValue(@, t.row, t.col, items[1].val)], Tail(items))

\* the loop of _apply_formulas over self.formulas.items()
RECURSIVE ApplyFormulaItems(_, _)
ApplyFormulaItems(wb, items) ==
  IF items = <<>> THEN wb
  ELSE LET t == target_of(wb, items[1].key)
           v == items[1].val
           wb2 == IF ~t.ok THEN wb
                  ELSE [wb EXCEPT ![t.sheet] =
                          SetValue(@, t.row, t.col,
                                   IF Storable(v) THEN v ELSE CellAt(@, t.row, t.col).value)]
       IN  ApplyFormulaItems(wb2, Tail(items))

\* _apply_formulas: .items() of a value that is no dict raises AttributeError
apply_formulas(d) ==
  IF d.formulas.k # "map" THEN [d |-> d, raised |-> TRUE]
  ELSE [d |-> [d EXCEPT !.workbook = ApplyFormulaItems(@, d.formulas.items)], raised |-> FALSE]

\* an attribute assignment on cell.font: openpyxl hands out an immutable
\* StyleProxy whose __setattr__ raises AttributeError
SetFontAttr(font, attr, value) == [ok |-> FALSE, font |-> font]

\* openpyxl.styles.Color(rgb=c): aRGB hex, 6 digits get the alpha 00
HexChars == Digits \cup {"A", "B", "C", "D", "E", "F", "a", "b", "c", "d", "e", "f"}
ValidRgb(c) == Len(c) \in {6, 8} /\ \A i \in 1..Len(c) : c[i] \in HexChars
ColorOfRgb(c) == RgbColor(IF Len(c) = 6 THEN <<"0", "0">> \o c ELSE c)

\* lines 239-260 for one cell and one dict of rules; an exception ends the
\* rules of this key and keeps what was assigned before it
apply_rules(cell, rules) ==
  LET has(kx) == MapHas(rules, StrV(kx))
      get(kx) == MapGet(rules, StrV(kx))
      c1 == IF has(K_numberFormat) /\ get(K_numberFormat).k = "str"
            THEN [cell EXCEPT !.number_format = get(K_numberFormat).s] ELSE cell
      c2 == IF has(K_bold) /\ Truthy(get(K_bold))
            THEN [c1 EXCEPT !.font = NewFont(TRUE, FALSE)] ELSE c1
      it == SetFontAttr(c2.font, "italic", TRUE)
      wantItalic == has(K_italic) /\ Truthy(get(K_italic))
      c3 == IF wantItalic /\ it.ok THEN [c2 EXCEPT !.font = [it.font EXCEPT !.italic = TRUE]] ELSE c2
      color == IF get(K_color).k = "str" /\ StartsWith(get(K_color).s, <<"#">>)
               THEN <<"F", "F">> \o Tail(get(K_color).s) ELSE get(K_color).s
      co == SetFontAttr(c3.font, "color", ColorOfRgb(color))
  IN  IF wantItalic /\ ~it.ok THEN c2
      ELSE IF ~has(K_color) \/ get(K_color).k # "str" THEN c3
      ELSE IF ~ValidRgb(color) \/ ~co.ok THEN c3
      ELSE [c3 EXCEPT !.font = [co.font EXCEPT !.color = ColorOfRgb(color)]]

\* the loop of _apply_formatting over self.formatting.items()
RECURSIVE ApplyFormatItems(_, _)
ApplyFormatItems(wb, items) ==
  IF items = <<>> THEN wb
  ELSE LET t == target_of(wb, items[1].key)
           rules == items[1].val
           old == CellAt(wb[t.sheet], t.row, t.col)
           wb2 == IF ~t.ok THEN wb
                  ELSE [wb EXCEPT ![t.sheet] =
                          SetCell(@, t.row, t.col,
                                  IF rules.k = "map" THEN apply_rules(old, rules) ELSE old)]
       IN  ApplyFormatItems(wb2, Tail(items))

\* _apply_formatting
apply_formatting(d) ==
  IF d.formatting.k # "map" THEN [d |-> d, raised |-> TRUE]
  ELSE [d |-> [d EXCEPT !.workbook = ApplyFormatItems(@, d.formatting.items)], raised |-> FALSE]

\* self.workbook.save(path): a workbook without a sheet cannot be written
\* (IndexError)
CanSave(wb) == Len(wb) >= 1

\* convert_content: [d, raised, saved, step]; d is the converter afterwards,
\* saved tells that the file was written, step names the last call entered
convert_content(d0, content) ==
  LET out(s, name, saved) == [d |-> s.d, raised |-> ~saved, saved |-> saved, step |-> name]
      save(s5) == IF s5.raised THEN out(s5, "formatting", FALSE)
                  ELSE out(s5, "save", CanSave(s5.d.workbook))
      formatting(s4) == IF s4.raised THEN out(s4, "formulas", FALSE)
                        ELSE save(apply_formatting(s4.d))
      formulas(s3) == IF s3.raised THEN out(s3, "data", FALSE)
                      ELSE formatting(apply_formulas(s3.d))
      data(s2) == IF s2.raised THEN out(s2, "create", FALSE)
                  ELSE formulas(apply_sheet_data(s2.d, 1))
      create(s1) == IF s1.raised THEN out(s1, "parse", FALSE)
                    ELSE data(create_workbook(s1.d))
  IN  create(parse_mdn_content(d0, content))

---------------------------------------------------------------------------
(* mdn_validator.py: MDNValidator.  Line positions are 1-based here (the   *)
(* code's index + 1); 0 stands for "not in section_positions".  Errors and *)
(* warnings are kept as the kind of the message.                           *)

ALL_SECTIONS ==
  <<HEADER_SECTION, SHEET_SECTION, FORMULAS_SECTION, FORMAT_SECTION, AI_PROMPT_SECTION>>

\* the validator's fields after __init__
NewValidator ==
  [content |-> <<>>, lines |-> <<>>,
   section_positions |-> [header |-> 0, sheet |-> <<>>, formulas |-> 0, format |-> 0, ai_prompt |-> 0]]

\* the section a line registers in _find_sections: its index in ALL_SECTIONS, 0 for none
SectionOfLine(raw) ==
  LET line == Strip(raw)
      hits == {k \in 1..Len(ALL_SECTIONS) : Contains(line, ALL_SECTIONS[k])}
  IN  IF ~StartsWith(line, MARK_PREFIX) THEN 0
      ELSE IF hits = {} THEN 0
      ELSE Min(hits)

\* _find_sections: the last line of every section but SHEET, all lines of SHEET
find_sections(lines) ==
  LET kinds == [i \in 1..Len(lines) |-> SectionOfLine(lines[i])]
      at(k) == {i \in 1..Len(lines) : kinds[i] = k}
      last(k) == IF at(k) = {} THEN 0 ELSE Max(at(k))
  IN  [header |-> last(1), sheet |-> SortedSeq(at(2)), formulas |-> last(3),
       format |-> last(4), ai_prompt |-> last(5)]

\* the stripped lines after start_pos up to the first '---' line
Payload(lines, start) ==
  LET stop == {i \in (start + 1)..Len(lines) : Strip(lines[i]) = SEP}
      last == IF stop = {} THEN Len(lines) ELSE Min(stop) - 1
  IN  [i \in 1..(last - start) |-> Strip(lines[start + i])]

\* `field in yaml_data` for a dict, a str or a list; other values raise TypeError
CanContain(data) == data.k \in {"map", "str", "list"}
In(field, data) ==
  CASE data.k = "map" -> MapHas(data, StrV(field))
    [] data.k = "str" -> Contains(data.s, field)
    [] data.k = "list" -> \E i \in 1..Len(data.items) : data.items[i] = StrV(field)
    [] OTHER -> FALSE

\* re.match(r'^\d+\.\d+(\.\d+)?$', version)
IsSemantic(version) ==
  LET parts == Split(version, <<".">>)
  IN  Len(parts) \in {2, 3} /\ \A i \in 1..Len(parts) : IsDigit(parts[i])

\* str(yaml_data['version'])
VersionText(v) == IF v.k \in {"list", "map"} THEN <<"[">> ELSE PyStr(v)

Hashable(v) == v.k \notin {"list", "map"}

NoFindings == [raised |-> FALSE, errors |-> <<>>, warnings |-> <<>>, sheet_names |-> <<>>]
Raised == [raised |-> TRUE, errors |-> <<>>, warnings |-> <<>>, sheet_names |-> <<>>]

\* _validate_yaml_header: [raised, errors, warnings, sheet_names]
validate_yaml_header(lines, sp) ==
  LET checks(yaml_content, r) ==
        LET data == r.v
            required == <<K_source, K_version, K_created, K_sheets>>
            missing == SelectSeq(required, LAMBDA f : ~In(f, data))
            e1 == [i \in 1..Len(missing) |-> "missing_field"]
            sheets == MapGet(data, StrV(K_sheets))
            listed == In(K_sheets, data) /\ sheets.k = "list" /\ sheets.items # <<>>
            e2 == IF ~In(K_sheets, data) THEN <<>>
                  ELSE IF sheets.k # "list" THEN <<"sheets_not_list">>
                  ELSE IF sheets.items = <<>> THEN <<"sheets_empty">>
                  ELSE <<>>
            dup == \E i, j \in 1..Len(sheets.items) : i < j /\ sheets.items[i] = sheets.items[j]
            w1 == IF listed /\ dup THEN <<"duplicate_sheet_names">> ELSE <<>>
            w2 == IF In(K_version, data) /\ ~IsSemantic(VersionText(MapGet(data, StrV(K_version))))
                  THEN <<"version_format">> ELSE <<>>
        IN  IF sp.header = 0 THEN NoFindings
            ELSE IF yaml_content = <<>> THEN [NoFindings EXCEPT !.errors = <<"header_empty">>]
            ELSE IF ~r.ok THEN [NoFindings EXCEPT !.errors = <<"invalid_yaml">>]
            ELSE IF ~CanContain(data) THEN Raised
            ELSE IF data.k # "map" /\ (In(K_sheets, data) \/ In(K_version, data)) THEN Raised
            ELSE IF listed /\ \E i \in 1..Len(sheets.items) : ~Hashable(sheets.items[i]) THEN Raised
            ELSE [raised |-> FALSE, errors |-> e1 \o e2, warnings |-> w1 \o w2,
                  sheet_names |-> IF listed THEN sheets.items ELSE <<>>]
      loaded(yaml_content) == checks(yaml_content, yaml_safe_load(Join(yaml_content, <<"\n">>)))
  IN  loaded(Payload(lines, sp.header))

\* re.search(r'name=([^,\s]+)', section_line) finds a name
HasCsvName(line) ==
  \E i \in FindAll(line, NAME_EQ) :
     i + Len(NAME_EQ) <= Len(line) /\ line[i + Len(NAME_EQ)] \notin (WS \cup {","})

\* the findings of _validate_csv_sections for the section at start_pos
CsvFindings(lines, start_pos) ==
  LET csv_content == Payload(lines, start_pos)
      counts == {Len(Split(csv_content[i], <<",">>)) :
                   i \in {j \in 1..Len(csv_content) : csv_content[j] # <<>>}}
  IN  IF ~HasCsvName(Strip(lines[start_pos]))
      THEN [errors |-> <<"missing_sheet_name">>, warnings |-> <<>>]
      ELSE IF csv_content = <<>> THEN [errors |-> <<"csv_empty">>, warnings |-> <<>>]
      ELSE [errors |-> <<>>,
            warnings |-> (IF Len(csv_content) < 2 THEN <<"few_rows">> ELSE <<>>)
                         \o (IF Cardinality(counts) > 1 THEN <<"column_counts">> ELSE <<>>)]

RECURSIVE validate_csv_sections(_, _)
validate_csv_sections(lines, positions) ==
  IF positions = <<>> THEN [errors |-> <<>>, warnings |-> <<>>]
  ELSE LET a == CsvFindings(lines, positions[1])
           b == validate_csv_sections(lines, Tail(positions))
       IN  [errors |-> a.errors \o b.errors, warnings |-> a.warnings \o b.warnings]

\* re.match(r'^[^!]+![A-Z]+\d+$', cell_ref)
IsCellKey(key) ==
  LET bangs == FindAll(key, <<"!">>)
      ref == parse_cell_ref(SubSeq(key, Min(bangs) + 1, Len(key)))
  IN  /\ Cardinality(bangs) = 1
      /\ Min(bangs) > 1
      /\ ref.ok
      /\ \A i \in (Min(bangs) + 1 + Len(ref.col))..Len(key) : key[i] \in Digits

\* the loop of _validate_formulas_section over formulas_data.items()
RECURSIVE FormulaFindings(_)
FormulaFindings(items) ==
  IF items = <<>> THEN [errors |-> <<>>, warnings |-> <<>>]
  ELSE LET formula == items[1].val
           rest == FormulaFindings(Tail(items))
           w1 == IF IsCellKey(items[1].key.s) THEN <<>> ELSE <<"cell_reference_format">>
           w2 == IF StartsWith(formula.s, <<"=">>) THEN <<>> ELSE <<"formula_start">>
       IN  IF formula.k # "str"
           THEN [errors |-> <<"formula_type">> \o rest.errors, warnings |-> rest.warnings]
           ELSE [errors |-> rest.errors, warnings |-> w1 \o w2 \o rest.warnings]

\* _validate_formulas_section
validate_formulas_section(lines, sp) ==
  LET json_content == Payload(lines, sp.formulas)
      r == json_loads(Join(json_content, <<"\n">>))
  IN  IF sp.formulas = 0 THEN [errors |-> <<>>, warnings |-> <<>>]
      ELSE IF json_content = <<>> THEN [errors |-> <<"formulas_empty">>, warnings |-> <<>>]
      ELSE IF ~r.ok THEN [errors |-> <<"formulas_invalid_json">>, warnings |-> <<>>]
      ELSE IF r.v.k # "map" THEN [errors |-> <<"formulas_not_object">>, warnings |-> <<>>]
      ELSE FormulaFindings(r.v.items)

\* _validate_format_section
validate_format_section(lines, sp) ==
  LET json_content == Payload(lines, sp.format)
      r == json_loads(Join(json_content, <<"\n">>))
      bad == SelectSeq(r.v.items, LAMBDA it : it.val.k # "map")
  IN  IF json_content = <<>> THEN [errors |-> <<"format_empty">>, warnings |-> <<>>]
      ELSE IF ~r.ok THEN [errors |-> <<"format_invalid_json">>, warnings |-> <<>>]
      ELSE IF r.v.k # "map" THEN [errors |-> <<"format_not_object">>, warnings |-> <<>>]
      ELSE [errors |-> [i \in 1..Len(bad) |-> "format_info_type"], warnings |-> <<>>]

\* the length above which the AI prompt draws a warning
PROMPT_LIMIT == 500

RECURSIVE SumLen(_)
SumLen(ls) == IF ls = <<>> THEN 0 ELSE Len(ls[1]) + SumLen(Tail(ls))

\* _validate_ai_prompt_section
validate_ai_prompt_section(lines, sp) ==
  LET prompt_content == Payload(lines, sp.ai_prompt)
  IN  [errors |-> <<>>,
       warnings |-> (IF prompt_content = <<>> THEN <<"prompt_empty">> ELSE <<>>)
                    \o (IF SumLen(prompt_content) > PROMPT_LIMIT THEN <<"prompt_long">> ELSE <<>>)]

\* the position _validate_section_order uses for the k-th section of
\* expected_order: min of the SHEET positions, the stored one otherwise
OrderPos(sp, k) ==
  CASE k = 1 -> sp.header
    [] k = 2 -> IF sp.sheet = <<>> THEN 0 ELSE sp.sheet[1]
    [] k = 3 -> sp.formulas
    [] k = 4 -> sp.format
    [] OTHER -> sp.ai_prompt

\* _validate_section_order: the pairs <<i, j>> of neighbours among the
\* present sections with the first after the second
order_violations(sp) ==
  LET present == SelectSeq(<<1, 2, 3, 4, 5>>, LAMBDA k : OrderPos(sp, k) # 0)
      badIdx == SelectSeq([i \in 1..(Len(present) - 1) |-> i],
                          LAMBDA i : OrderPos(sp, present[i]) > OrderPos(sp, present[i + 1]))
  IN  [n \in 1..Len(badIdx) |-> <<present[badIdx[n]], present[badIdx[n] + 1]>>]

\* a changed validity rule: one error is let through
IsValidLenient(errors) == Len(errors) <= 1

\* is_valid = len(errors) == 0
IsValid(errors) == Len(errors) = 0

\* _validate_content on the lines of content:
\* [raised, is_valid, errors, warnings, sections_found, sheet_names, order]
validate_content(content, lines, sp) ==
  LET e0 == IF Contains(content, END_DOCUMENT) THEN <<>> ELSE <<"missing_end_document">>
      req == <<sp.header, IF sp.sheet = <<>> THEN 0 ELSE 1, sp.formulas>>
      e1 == [i \in 1..Len(SelectSeq(req, LAMBDA x : x = 0)) |-> "missing_section"]
      sections_found == SelectSeq(<<1, 2, 3, 4, 5>>, LAMBDA k : OrderPos(sp, k) # 0)
      none == [errors |-> <<>>, warnings |-> <<>>]
      ValidationResult(errors, warnings, sheet_names, order) ==
        [raised |-> FALSE, is_valid |-> IsValid(errors), errors |-> errors,
         warnings |-> warnings, sections_found |-> sections_found,
         sheet_names |-> sheet_names, order |-> order]
      collect(h, c, f, g, a, order) ==
        IF h.raised
        THEN [raised |-> TRUE, is_valid |-> FALSE, errors |-> <<>>, warnings |-> <<>>,
              sections_found |-> <<>>, sheet_names |-> <<>>, order |-> <<>>]
        ELSE ValidationResult(
               e0 \o e1 \o h.errors \o c.errors \o f.errors \o g.errors \o a.errors
                  \o [i \in 1..Len(order) |-> "section_order"],
               h.warnings \o c.warnings \o f.warnings \o g.warnings \o a.warnings,
               h.sheet_names, order)
  IN  collect(validate_yaml_header(lines, sp),
              validate_csv_sections(lines, sp.sheet),
              validate_formulas_section(lines, sp),
              IF sp.format # 0 THEN validate_format_section(lines, sp) ELSE none,
              IF sp.ai_prompt # 0 THEN validate_ai_prompt_section(lines, sp) ELSE none,
              order_violations(sp))

\* validate_string: the validator afterwards and what the call gives
validate_string(v, content) ==
  LET lines == Split(content, <<"\n">>)
      sp == find_sections(lines)
  IN  [v |-> [content |-> content, lines |-> lines, section_positions |-> sp],
       result |-> validate_content(content, lines, sp)]

---------------------------------------------------------------------------
(* utils.py: validate_mdn_structure, the check behind the CLI's validate   *)

LowerChars == <<"a", "b", "c", "d", "e", "f", "g", "h", "i", "j", "k", "l", "m",
                "n", "o", "p", "q", "r", "s", "t", "u", "v", "w", "x", "y", "z">>
Lower(s) == [i \in 1..Len(s) |-> IF s[i] \in Uppers THEN LowerChars[Ord(s[i])] ELSE s[i]]

\* [valid, errors, sections]: errors holds the one 'error' entry of the dict, if any
validate_mdn_structure(content) ==
  LET lines == Split(content, <<"\n">>)
      marked == SelectSeq(lines, LAMBDA l : StartsWith(l, MARK_PREFIX \o MDN_PREFIX))
      kind(l) == Lower(Split(Split(l, <<" ">>)[2], <<":">>)[2])
      invalid(e) == [valid |-> FALSE, errors |-> <<e>>, sections |-> <<>>]
  IN  IF ~Contains(content, MARK_PREFIX \o HEADER_SECTION) THEN invalid("missing_header")
      ELSE IF ~Contains(content, MARK_PREFIX \o SHEET_SECTION) THEN invalid("missing_sheet")
      ELSE IF ~Contains(content, MARK_PREFIX \o FORMULAS_SECTION) THEN invalid("missing_formulas")
      ELSE IF ~Contains(content, END_DOCUMENT) THEN invalid("missing_end_document")
      ELSE [valid |-> TRUE, errors |-> <<>>, sections |-> [i \in 1..Len(marked) |-> kind(marked[i])]]

---------------------------------------------------------------------------
(* utils.py: parse_range_reference.  The values it computes with are kept  *)
(* with their Python type: StrV or IntV.                                   *)

\* str.isalpha
IsAlpha(s) ==
  s # <<>> /\ \A i \in 1..Len(s) : s[i] \in Uppers \/ \E j \in 1..26 : LowerChars[j] = s[i]

\* the rows a column range such as 'A:A' is given (line 129)
COLUMN_ROWS == 1000

\* range(a, b): TypeError unless both are int; [ok, items]
PyRange(a, b) ==
  IF a.k = "int" /\ b.k = "int"
  THEN [ok |-> TRUE, items |-> [i \in 1..Max({0, b.n - a.n}) |-> a.n + i - 1]]
  ELSE [ok |-> FALSE, items |-> <<>>]

\* x + 1: TypeError for a str; [ok, v]
PlusOne(x) == IF x.k = "int" THEN [ok |-> TRUE, v |-> IntV(x.n + 1)] ELSE [ok |-> FALSE, v |-> x]

\* the cells of columns cols, each with the rows rows, column by column
ColumnByColumn(cols, rows) ==
  [k \in 1..(Len(cols) * Len(rows)) |->
     column_index_to_letter(cols[((k - 1) \div Len(rows)) + 1])
     \o NatStr(rows[((k - 1) % Len(rows)) + 1])]

\* lines 122-130: a column range
column_range(start, end) ==
  [ok |-> TRUE,
   cells |-> ColumnByColumn(
               PyRange(IntV(column_letter_to_index(start)),
                       IntV(column_letter_to_index(end) + 1)).items,
               [r \in 1..COLUMN_ROWS |-> r])]

\* lines 132-139: start_col, start_row = parse_cell_reference(start)[:2] takes
\* the first two of (column_letters, column_index, row_number); ~ok is the
\* ValueError of parse_cell_reference or the TypeError of end_col + 1, of
\* end_row + 1 or of range()
cell_range(start, end) ==
  LET s == parse_cell_reference(start)
      e == parse_cell_reference(end)
      start_col == StrV(s.letters)
      start_row == IntV(s.col)
      end_col == StrV(e.letters)
      end_row == IntV(e.col)
      cols == PyRange(start_col, PlusOne(end_col).v)
      rows == PyRange(start_row, PlusOne(end_row).v)
  IN  IF ~s.ok \/ ~e.ok THEN [ok |-> FALSE, cells |-> <<>>]
      ELSE IF ~PlusOne(end_col).ok \/ ~cols.ok THEN [ok |-> FALSE, cells |-> <<>>]
      ELSE IF cols.items = <<>> THEN [ok |-> TRUE, cells |-> <<>>]
      ELSE IF ~PlusOne(end_row).ok \/ ~rows.ok THEN [ok |-> FALSE, cells |-> <<>>]
      ELSE [ok |-> TRUE, cells |-> ColumnByColumn(cols.items, rows.items)]

\* the body of the loop for one part; start, end = part.split(':') is a
\* ValueError unless there is exactly one ':'
range_part(part0) ==
  LET part == Strip(part0)
      pieces == Split(part, <<":">>)
  IN  IF ~Contains(part, <<":">>) THEN [ok |-> TRUE, cells |-> <<part>>]
      ELSE IF Len(pieces) # 2 THEN [ok |-> FALSE, cells |-> <<>>]
      ELSE IF IsAlpha(pieces[1]) /\ IsAlpha(pieces[2]) THEN column_range(pieces[1], pieces[2])
      ELSE cell_range(pieces[1], pieces[2])

RECURSIVE range_parts(_, _)
range_parts(parts, cells) ==
  IF parts = <<>> THEN [ok |-> TRUE, cells |-> cells]
  ELSE LET next(r) == IF ~r.ok THEN r ELSE range_parts(Tail(parts), cells \o r.cells)
       IN  next(range_part(parts[1]))

\* parse_range_reference(range_ref): [ok, cells]
parse_range_reference(range_ref) == range_parts(Split(range_ref, <<",">>), <<>>)

---------------------------------------------------------------------------
(* mdn_converter.py: the command line.  A file is the workbook or the text *)
(* it holds; exists = FALSE is a path with no file, which open() and       *)
(* load_workbook answer with an exception.                                 *)

\* excel_parser.excel_to_mdn: convert_file on a new ExcelToMDNConverter
excel_to_mdn(wb, unset) == Join(convert_fragments(wb, unset), <<"\n">>)

\* mdn_parser.mdn_to_excel: convert_content on a new MDNToExcelConverter
mdn_to_excel(mdn_content) == convert_content(NewDecoder, mdn_content)

\* what mdn2excel and roundtrip do with the text at hand: mdn_to_excel, and
\* for roundtrip (validate = TRUE) steps 3 and 4 of round_trip_test;
\* [raised, success]
decode_steps(mdn_content, validate) ==
  IF mdn_to_excel(mdn_content).raised THEN [raised |-> TRUE, success |-> FALSE]
  ELSE [raised |-> FALSE, success |-> validate => validate_mdn_structure(mdn_content).valid]

\* MDNConverter.round_trip_test: [raised, success]; the text of step 1 is
\* computed once
round_trip_test(wb, unset) ==
  CHOOSE r \in {decode_steps(mdn_content, TRUE) : mdn_content \in {excel_to_mdn(wb, unset)}} : TRUE

\* the exit code of main(): sys.exit(1) in the handler of `except Exception`
\* and for mdn2excel without output_file, sys.exit(0 if success else 1) for
\* roundtrip, and 0 when main() returns.  mdn2excel decodes the input text
\* and roundtrip decodes and validates the text excel_to_mdn gives.
EXIT_OK == 0
EXIT_FAILURE == 1
main(args, unset) ==
  LET exit(r) == IF r.raised \/ ~r.success THEN EXIT_FAILURE ELSE EXIT_OK
  IN  IF ~args.exists THEN EXIT_FAILURE
      ELSE IF args.command \in {"excel2mdn", "validate"} THEN EXIT_OK
      ELSE IF args.command = "mdn2excel" /\ ~args.output THEN EXIT_FAILURE
      ELSE CHOOSE code \in
             {exit(decode_steps(mdn_content, args.command = "roundtrip")) :
                mdn_content \in {IF args.command = "roundtrip"
                                 THEN excel_to_mdn(args.input, unset) ELSE args.input}} : TRUE

---------------------------------------------------------------------------
(* The workbooks handed to the encoder                                     *)

\* the largest row and column of the generated sheets
MaxRow == 2
MaxCol == 2

T_abc == <<"a","b","c">>
T_123 == <<"1","2","3">>
T_lead == <<" ","a">>
T_trail == <<"a"," ">>
T_formula == <<"=","A","1","+","1">>
T_comma == <<"a",",","b">>
T_dash == <<"1","-","2">>
T_x == <<"x">>
N_S == <<"S">>
N_T == <<"T">>
N_Budget == <<"B","u","d","g","e","t">>
N_Q3 == <<"Q","3"," ","D","a","t","a">>
T_Category == <<"C","a","t","e","g","o","r","y">>
T_SUM == <<"=","S","U","M","(","B","1",":","B","1",")">>
T_AA == <<"=","A","1","*","2">>
NF_2 == <<"0",".","0","0">>
RGB_RED == <<"F","F","F","F","0","0","0","0">>
RGB_BLUE == <<"0","0","0","0","0","0","F","F">>

\* cell values: empty, integers, reals, strings, a formula
CellValues ==
  {NoneV, IntV(100), IntV(0), IntV(-5), RealV(15, 1), RealV(-25, 1), RealV(2, 0),
   StrV(T_abc), StrV(T_123), StrV(T_lead), StrV(T_trail), StrV(T_comma), StrV(T_dash),
   StrV(T_formula)}

Fillers == {NoneV, IntV(1)}

Positions == (1..MaxRow) \X (1..MaxCol)

\* a sheet with `cell` at `pos`; with a filler other than None every other
\* cell of the grid holds the filler
FocusSheet(name, pos, cell, filler) ==
  SheetOf(name, [p \in (IF filler = NoneV THEN {pos} ELSE Positions) |->
                   IF p = pos THEN cell ELSE Plain(filler)])

ValueBooks ==
  {<<FocusSheet(N_S, pos, Plain(v), filler)>> : pos \in Positions, v \in CellValues, filler \in Fillers}

\* fonts: the default one, bold, italic, both, each with one of the colours
FontColors == {ThemeColor(1), ThemeColor(4), RgbColor(RGB_RED), RgbColor(RGB_BLUE), NoColor}
Fonts == {FontOf(b, i, c) : b \in BOOLEAN, i \in BOOLEAN, c \in FontColors}
NumberFormats == {GENERAL, NF_2}

FormatBooks ==
  {<<FocusSheet(N_S, <<1, 1>>, CellOf(StrV(T_x), f, nf), NoneV)>> : f \in Fonts, nf \in NumberFormats}

\* sheet "Budget": A1 = "Category" in bold, B1 = 100, B2 = "=SUM(B1:B1)"
Budget ==
  <<SheetOf(N_Budget, (<<1, 1>> :> CellOf(StrV(T_Category), NewFont(TRUE, FALSE), GENERAL))
                      @@ (<<1, 2>> :> Plain(IntV(100)))
                      @@ (<<2, 2>> :> Plain(StrV(T_SUM))))>>

\* sheet "Q3 Data": A1 = 5 and a formula in AA10
Q3Data ==
  <<SheetOf(N_Q3, (<<1, 1>> :> Plain(IntV(5))) @@ (<<10, 27>> :> Plain(StrV(T_AA))))>>

\* a workbook with one sheet without cells, and workbooks with two sheets
EmptyBook == <<SheetOf(N_S, <<>>)>>
TwoSheets ==
  <<SheetOf(N_S, (<<1, 1>> :> Plain(IntV(1))) @@ (<<2, 1>> :> Plain(StrV(T_formula)))),
    SheetOf(N_T, (<<1, 1>> :> Plain(StrV(T_abc))) @@ (<<1, 2>> :> Plain(RealV(15, 1))))>>
EmptyAndData == <<SheetOf(N_S, <<>>), SheetOf(N_T, (<<1, 1>> :> Plain(IntV(7))))>>

\* sheet "S": A1 = "Smith, J.", B1 = 100
T_Smith == <<"S","m","i","t","h",","," ","J",".">>
Names == <<SheetOf(N_S, (<<1, 1>> :> Plain(StrV(T_Smith))) @@ (<<1, 2>> :> Plain(IntV(100))))>>

ScenarioBooks == {Budget, Q3Data, EmptyBook, TwoSheets, EmptyAndData, Names}

\* one column of MaxRow + 1 rows: row k holds a text whose CSV line is
\* blank, starts with 'MDN:' or has a line break (or, for comparison, 'x'),
\* the other rows hold the integer 6 + row; and a sheet whose only cell
\* holds a blank
T_blank == <<" ">>
T_mdn == <<"M","D","N",":","x">>
T_break == <<"a","\n","b">>
RowTexts == {T_blank, T_mdn, T_break}
RowBook(t, k) ==
  <<SheetOf(N_S, [p \in (1..(MaxRow + 1)) \X {1} |->
                   IF p[1] = k THEN Plain(StrV(t)) ELSE Plain(IntV(6 + p[1]))])>>
BlankOnly == <<SheetOf(N_S, (<<1, 1>> :> Plain(StrV(T_blank)))), SheetOf(N_T, (<<1, 1>> :> Plain(IntV(7))))>>
RowBooks == {RowBook(t, k) : t \in RowTexts \cup {T_x}, k \in 1..(MaxRow + 1)} \cup {BlankOnly}

\* a run of dashes inside a cell value, a sheet name, a formula or a number
\* format: three dashes, and two for comparison; A2 holds 7
Dashes == {<<"-", "-", "-">>, <<"-", "-">>}
DashKinds == {"value", "name", "formula", "format"}
DashBook(kind, dash) ==
  LET text == <<"a">> \o dash \o <<"b">>
      first == CASE kind = "value" -> Plain(StrV(text))
                 [] kind = "formula" -> Plain(StrV(<<"=", "1">> \o dash \o <<"2">>))
                 [] kind = "format" -> CellOf(IntV(5), DefaultFont, <<"0">> \o dash \o <<"0">>)
                 [] OTHER -> Plain(StrV(T_x))
  IN  <<SheetOf(IF kind = "name" THEN text ELSE N_S,
                (<<1, 1>> :> first) @@ (<<2, 1>> :> Plain(IntV(7))))>>
DashBooks == {DashBook(kind, dash) : kind \in DashKinds, dash \in Dashes}

Workbooks == ValueBooks \cup FormatBooks \cup ScenarioBooks \cup RowBooks \cup DashBooks

---------------------------------------------------------------------------
(* Documents written by hand: one section block per marker, each with a    *)
(* payload, joined by newlines and closed by the end marker                *)

\* HEADER payloads
H_good ==
  <<"s","o","u","r","c","e",":"," ","a",".","x","l","s","x","\n","v","e","r","s","i","o","n",
    ":"," ","1",".","0","\n","c","r","e","a","t","e","d",":"," ","t","o","d","a","y","\n","s",
    "h","e","e","t","s",":","\n","-"," ","S">>
H_two ==
  <<"s","o","u","r","c","e",":"," ","a",".","x","l","s","x","\n","v","e","r","s","i","o","n",
    ":"," ","1",".","0","\n","c","r","e","a","t","e","d",":"," ","t","o","d","a","y","\n","s",
    "h","e","e","t","s",":","\n","-"," ","S","\n","-"," ","T">>
H_blank == <<"\n">>
H_int == <<"4","2">>
H_word == <<"s","h","e","e","t","s">>
H_list == <<"-"," ","a","\n","-"," ","b">>
H_nosheets ==
  <<"s","o","u","r","c","e",":"," ","a",".","x","l","s","x","\n","v","e","r","s","i","o","n",
    ":"," ","1",".","0","\n","c","r","e","a","t","e","d",":"," ","t","o","d","a","y">>
H_nested ==
  <<"s","o","u","r","c","e",":"," ","a",".","x","l","s","x","\n","v","e","r","s","i","o","n",
    ":"," ","1",".","0","\n","c","r","e","a","t","e","d",":"," ","t","o","d","a","y","\n","s",
    "h","e","e","t","s",":"," ","[","[","S","]",","," ","T","]">>
H_dup ==
  <<"s","o","u","r","c","e",":"," ","a",".","x","l","s","x","\n","v","e","r","s","i","o","n",
    ":"," ","1",".","0","\n","c","r","e","a","t","e","d",":"," ","t","o","d","a","y","\n","s",
    "h","e","e","t","s",":","\n","-"," ","S","\n","-"," ","S">>
H_version ==
  <<"s","o","u","r","c","e",":"," ","a",".","x","l","s","x","\n","v","e","r","s","i","o","n",
    ":"," ","v","1","\n","c","r","e","a","t","e","d",":"," ","t","o","d","a","y","\n","s","h",
    "e","e","t","s",":","\n","-"," ","S">>
H_broken == <<"s","o","u","r","c","e",":"," ","[","a">>
\* SHEET payloads
S_good == <<"a",",","b","\n","1",",","2">>
S_other == <<"x","\n","2",".","5">>
S_one == <<"a",",","b">>
S_uneven == <<"a",",","b","\n","1">>
\* signed and unsigned numbers, an empty field and a word
S_signed ==
  <<"-","5",",","7",",","\n","2",".","5",",","-","2",".","5",",","x">>
\* texts of digits, '.' and '-' that are no number
T_dots == <<"1",".","2",".","3">>
T_tail == <<"5","-">>
T_two == <<"-","-","5">>
OddTexts == {T_dots, T_dash, T_tail, T_two}
\* FORMULAS payloads
F_good == <<"{","\"","S","!","A","3","\"",":"," ","\"","=","A","2","+","1","\"","}">>
F_none == <<"{","}">>
F_yaml == <<"S","!","A","3",":"," ","=","A","2","+","1">>
F_int == <<"5">>
F_list == <<"[","1",","," ","2","]">>
F_badkey == <<"{","\"","A","3","\"",":"," ","\"","=","A","2","+","1","\"","}">>
F_text == <<"{","\"","S","!","A","3","\"",":"," ","\"","t","o","t","a","l","\"","}">>
F_number == <<"{","\"","S","!","A","3","\"",":"," ","7","}">>
\* FORMAT payloads
G_good ==
  <<"{","\"","S","!","A","1","\"",":"," ","{","\"","b","o","l","d","\"",":"," ","t","r","u","e",
    "}","}">>
G_yaml == <<"S","!","A","1",":","\n"," "," ","b","o","l","d",":"," ","t","r","u","e">>
G_int == <<"5">>
G_list == <<"[","1",","," ","2","]">>
G_flat == <<"{","\"","S","!","A","1","\"",":"," ","5","}">>
\* maps in which keys that address no cell stand before, between and after keys that do
F_mixed ==
  <<"{","\"","X","!","A","1","\"",":"," ","\"","=","1","\"",","," ","\"","S","!","A","3","\"",":",
    " ","\"","=","A","2","+","1","\"",","," ","\"","S","!","1","A","\"",":"," ","\"","=","2","\"",
    ","," ","\"","n","o","b","a","n","g","\"",":"," ","\"","=","3","\"",","," ","\"","S","!","B",
    "3","\"",":"," ","\"","=","B","2","+","1","\"","}">>
G_mixed ==
  <<"{","\"","X","!","A","1","\"",":"," ","{","\"","b","o","l","d","\"",":"," ","t","r","u","e",
    "}",","," ","\"","S","!","A","1","\"",":"," ","{","\"","b","o","l","d","\"",":"," ","t","r",
    "u","e","}",","," ","\"","S","!","1","A","\"",":"," ","{","\"","b","o","l","d","\"",":"," ",
    "t","r","u","e","}",","," ","\"","n","o","b","a","n","g","\"",":"," ","{","\"","b","o","l",
    "d","\"",":"," ","t","r","u","e","}",","," ","\"","S","!","B","2","\"",":"," ","{","\"","n",
    "u","m","b","e","r","F","o","r","m","a","t","\"",":"," ","\"","0",".","0","0","\"","}","}">>
A_text == <<"S","u","m","m","a","r","i","s","e"," ","t","h","e"," ","s","h","e","e","t">>

NoPayload == [has |-> FALSE, text |-> <<>>]
Text(t) == [has |-> TRUE, text |-> t]

\* a marker line, the payload lines if any, and the closing '---'
Block(marker, payload) ==
  IF payload.has THEN <<MARK_PREFIX \o marker, payload.text, SEP>>
  ELSE <<MARK_PREFIX \o marker, SEP>>

HeaderBlock(p) == Block(HEADER_SECTION, p)
SheetBlock(name, p) == Block(SHEET_SECTION \o NAME_ATTR \o name, p)
FormulasBlock(p) == Block(FORMULAS_SECTION, p)
FormatBlock(p) == Block(FORMAT_SECTION, p)
PromptBlock(p) == Block(AI_PROMPT_SECTION, p)

\* the text of a document made of these block lines
DocOf(blocks, withEnd) ==
  Join(blocks \o (IF withEnd THEN <<END_DOCUMENT>> ELSE <<>>), <<"\n">>)

StdSheet == SheetBlock(N_S, Text(S_good))
StdFormulas == FormulasBlock(Text(F_good))

HeaderPayloads ==
  {Text(H_good), Text(H_blank), Text(H_int), Text(H_word), Text(H_list), Text(H_nosheets),
   Text(H_nested), Text(H_dup), Text(H_version), Text(H_broken), NoPayload}
SheetPayloads == {Text(S_good), Text(S_one), Text(S_uneven), NoPayload}
FormulaPayloads ==
  {Text(F_good), Text(F_none), Text(F_yaml), Text(F_int), Text(F_list), Text(F_badkey),
   Text(F_text), Text(F_number), NoPayload}
FormatPayloads == {Text(G_good), Text(G_yaml), Text(G_int), Text(G_list), Text(G_flat), NoPayload}

\* one section deviates from the standard document
HeaderDocs == {DocOf(HeaderBlock(h) \o StdSheet \o StdFormulas, TRUE) : h \in HeaderPayloads}
SheetDocs ==
  {DocOf(HeaderBlock(Text(H_good)) \o SheetBlock(N_S, p) \o StdFormulas, TRUE) : p \in SheetPayloads}
  \cup {DocOf(HeaderBlock(Text(H_good)) \o Block(SHEET_SECTION, Text(S_good)) \o StdFormulas, TRUE)}
FormulaDocs ==
  {DocOf(HeaderBlock(Text(H_good)) \o StdSheet \o FormulasBlock(f), TRUE) : f \in FormulaPayloads}
FormatDocs ==
  {DocOf(HeaderBlock(Text(H_good)) \o StdSheet \o StdFormulas \o FormatBlock(g), TRUE) :
     g \in FormatPayloads}

\* several deviations at once
MixedDocs ==
  {DocOf(HeaderBlock(h) \o StdSheet \o FormulasBlock(f) \o FormatBlock(g), e) :
     h \in {Text(H_good), Text(H_nosheets), Text(H_dup)},
     f \in {Text(F_good), Text(F_yaml), Text(F_text)},
     g \in {Text(G_good), Text(G_int)}, e \in BOOLEAN}

\* documents made of up to MaxBlocks different blocks in any order
MaxBlocks == 3
BlockIds == {"H", "S", "T", "F", "G", "A"}
BlockOf(id) ==
  CASE id = "H" -> HeaderBlock(Text(H_two))
    [] id = "S" -> StdSheet
    [] id = "T" -> SheetBlock(N_T, Text(S_other))
    [] id = "F" -> StdFormulas
    [] id = "G" -> FormatBlock(Text(G_good))
    [] OTHER -> PromptBlock(Text(A_text))

RECURSIVE BlocksOf(_)
BlocksOf(ids) == IF ids = <<>> THEN <<>> ELSE BlockOf(ids[1]) \o BlocksOf(Tail(ids))

BlockOrders ==
  {o \in UNION {[1..n -> BlockIds] : n \in 0..MaxBlocks} :
     \A i, j \in DOMAIN o : i # j => o[i] # o[j]}
LongOrders ==
  {<<"H", "S", "T", "F">>, <<"H", "S", "F", "T">>, <<"S", "H", "T", "F">>, <<"T", "H", "S", "F">>,
   <<"H", "S", "F", "G">>, <<"H", "S", "G", "F">>, <<"H", "S", "F", "G", "A">>,
   <<"H", "S", "F", "A", "G">>, <<"H", "F", "S", "T">>}
OrderDocs == {DocOf(BlocksOf(o), TRUE) : o \in BlockOrders \cup LongOrders}

\* a header of blank lines only, with a sheet before it or a FORMULAS payload
\* that is no JSON
BlankHeaderDocs ==
  {DocOf(StdSheet \o HeaderBlock(Text(H_blank)) \o StdFormulas, TRUE),
   DocOf(HeaderBlock(Text(H_blank)) \o StdSheet \o FormulasBlock(Text(F_yaml)), TRUE),
   DocOf(HeaderBlock(Text(H_blank)) \o StdSheet, FALSE)}

\* FORMULAS and FORMAT maps with keys that address no cell
SkipDocs ==
  {DocOf(HeaderBlock(Text(H_good)) \o StdSheet \o FormulasBlock(Text(f)) \o FormatBlock(Text(g)), TRUE) :
     f \in {F_good, F_mixed}, g \in {G_good, G_mixed}}

\* sheet payloads for the type conversion of the decoder: numbers, and a
\* text that is no number before the fields 7, a and b
SignedDoc == DocOf(HeaderBlock(Text(H_good)) \o SheetBlock(N_S, Text(S_signed)) \o StdFormulas, TRUE)
OddDoc(t) ==
  DocOf(HeaderBlock(Text(H_good)) \o SheetBlock(N_S, Text(t \o <<",", "7", "\n", "a", ",", "b">>))
        \o StdFormulas \o FormatBlock(Text(G_good)), TRUE)
CoerceDocs == {SignedDoc} \cup {OddDoc(t) : t \in OddTexts}

\* documents given one after the other to the same decoder and validator
ReuseDocs ==
  {DocOf(BlocksOf(o), TRUE) :
     o \in {<<"H", "S", "T", "F">>, <<"H", "S", "F", "G">>, <<"H", "S">>, <<"H", "T", "F">>}}

\* headers that differ in the sheets list only, and what follows the header:
\* SHEET segments with and without a name or a payload, a name used twice, a
\* sheet after FORMULAS; names are the sheet names the segments with a name
\* and a payload give, in the order of their first occurrence
H_rev == H_nosheets \o <<"\n","s","h","e","e","t","s",":","\n","-"," ","T","\n","-"," ","S">>
H_other == H_nosheets \o <<"\n","s","h","e","e","t","s",":","\n","-"," ","X">>
ListHeaders == {H_good, H_two, H_dup, H_nested, H_rev, H_other, H_nosheets}
OtherSheet == SheetBlock(N_T, Text(S_other))
ListBodies ==
  {[blocks |-> OtherSheet \o StdSheet \o StdFormulas, names |-> <<N_T, N_S>>],
   [blocks |-> StdSheet \o SheetBlock(N_T, NoPayload) \o StdFormulas, names |-> <<N_S>>],
   [blocks |-> Block(SHEET_SECTION, Text(S_good)) \o OtherSheet \o StdFormulas, names |-> <<N_T>>],
   [blocks |-> StdSheet \o OtherSheet \o SheetBlock(N_S, Text(S_one)) \o StdFormulas,
    names |-> <<N_S, N_T>>],
   [blocks |-> StdSheet \o StdFormulas \o OtherSheet \o FormatBlock(Text(G_good)),
    names |-> <<N_S, N_T>>]}
ListDoc(h, body) == DocOf(HeaderBlock(Text(h)) \o body.blocks, TRUE)
ListDocs == {ListDoc(h, body) : h \in ListHeaders, body \in ListBodies}

\* a formula for the cell S!A1 and sheet payloads with each kind of field at
\* A1, the FORMULAS section after or before the sheet
F_first == <<"{","\"","S","!","A","1","\"",":"," ","\"","=","A","2","+","1","\"","}">>
FirstFields == {<<>>, <<"a">>, <<"7">>, <<"2", ".", "5">>, <<"-", "5">>, T_formula} \cup OddTexts
PlaceOrders == {<<1, 2, 3>>, <<1, 3, 2>>, <<3, 1, 2>>}
PlaceDoc(t, order) ==
  LET blocks == <<HeaderBlock(Text(H_good)),
                  SheetBlock(N_S, Text(t \o <<",", "7", "\n", "a", ",", "b">>)),
                  FormulasBlock(Text(F_first))>>
  IN  DocOf(blocks[order[1]] \o blocks[order[2]] \o blocks[order[3]], TRUE)
PlaceDocs == {PlaceDoc(t, order) : t \in FirstFields, order \in PlaceOrders}

\* documents with and without the context block after the header: what
\* stands before and after the header
ContextBlock == <<CONTEXT_MARK, yaml_dump(context_data), SEP>>
ContextCases ==
  {[pre |-> <<>>, post |-> StdSheet \o StdFormulas, end |-> TRUE],
   [pre |-> <<>>, post |-> Block(SHEET_SECTION, Text(S_good)) \o StdFormulas, end |-> TRUE],
   [pre |-> <<>>, post |-> StdSheet \o FormulasBlock(Text(F_yaml)) \o FormatBlock(Text(G_good)),
    end |-> TRUE],
   [pre |-> <<>>, post |-> StdFormulas \o StdSheet, end |-> TRUE],
   [pre |-> <<>>, post |-> SheetBlock(N_S, NoPayload) \o StdFormulas \o PromptBlock(Text(A_text)),
    end |-> FALSE],
   [pre |-> <<>>, post |-> <<>>, end |-> TRUE],
   [pre |-> StdSheet, post |-> StdFormulas, end |-> TRUE]}
ContextDoc(h, case, withContext) ==
  DocOf(case.pre \o HeaderBlock(h) \o (IF withContext THEN ContextBlock ELSE <<>>) \o case.post,
        case.end)
ContextDocs == {ContextDoc(h, case, TRUE) : h \in HeaderPayloads, case \in ContextCases}

\* a HEADER or a FORMULAS section given twice
RepeatedDocs ==
  {DocOf(BlocksOf(o), TRUE) :
     o \in {<<"H", "H", "S", "F">>, <<"H", "S", "F", "F">>, <<"H", "S", "F", "H">>,
            <<"H", "S", "F", "S">>}}

HandDocs ==
  RepeatedDocs \cup ContextDocs \cup PlaceDocs \cup HeaderDocs \cup SheetDocs \cup FormulaDocs \cup FormatDocs \cup MixedDocs \cup OrderDocs
  \cup BlankHeaderDocs \cup SkipDocs \cup CoerceDocs \cup ListDocs

---------------------------------------------------------------------------
(* The state: the three converter objects, the document at hand (the nth  *)
(* these objects are given) and what the last call of each kind gave; and  *)
(* for the module-level functions and the command line, the call made and  *)
(* what it returned                                                        *)

VARIABLES encoder, doc, decoder, outcome, validator, result, structure, call, ret

vars == <<encoder, doc, decoder, outcome, validator, result, structure, call, ret>>

\* ExcelToMDNConverter.__init__
NewEncoder == [workbook |-> <<>>, mdn_content |-> <<>>]

NoDoc == [set |-> FALSE, text |-> <<>>, nth |-> 0]
NoCall == [fn |-> "none", arg |-> <<>>]
NoRet == [done |-> FALSE, raised |-> FALSE, v |-> <<>>]
NoOutcome == [done |-> FALSE, raised |-> FALSE, saved |-> FALSE, step |-> "none"]
NoResult ==
  [done |-> FALSE, raised |-> FALSE, is_valid |-> FALSE, errors |-> <<>>, warnings |-> <<>>,
   sections_found |-> <<>>, sheet_names |-> <<>>, order |-> <<>>]
NoStructure == [done |-> FALSE, valid |-> FALSE, errors |-> <<>>, sections |-> <<>>]

Init ==
  /\ encoder = NewEncoder
  /\ doc = NoDoc
  /\ decoder = NewDecoder
  /\ outcome = NoOutcome
  /\ validator = NewValidator
  /\ result = NoResult
  /\ structure = NoStructure
  /\ call = NoCall
  /\ ret = NoRet

\* the calls of convert_file one encoder takes
MaxCalls == 2
RepeatBooks == {Budget, EmptyBook}
EncodeCalls == Cardinality({i \in 1..Len(encoder.mdn_content) : encoder.mdn_content[i] = END_DOCUMENT})

\* convert_file on the encoder: the fragments are appended to mdn_content and
\* the text returned is the join of all of it
ConvertFile(W, unset) ==
  /\ \/ ~doc.set
     \/ EncodeCalls \in 1..(MaxCalls - 1) /\ encoder.workbook \in RepeatBooks /\ W \in RepeatBooks
  /\ encoder' = [workbook |-> W, mdn_content |-> encoder.mdn_content \o convert_fragments(W, unset)]
  /\ doc' = [set |-> TRUE, text |-> Join(encoder'.mdn_content, <<"\n">>), nth |-> doc.nth + 1]
  /\ UNCHANGED <<decoder, outcome, validator, result, structure, call, ret>>

\* a document read from a file
LoadDoc(d) ==
  /\ ~doc.set
  /\ doc' = [set |-> TRUE, text |-> d, nth |-> 1]
  /\ UNCHANGED <<encoder, decoder, outcome, validator, result, structure, call, ret>>

\* the next document read from a file, given to the same decoder and the
\* same validator once both have taken the one before
NextDoc(d) ==
  /\ doc.set /\ EncodeCalls = 0
  /\ doc.text \in ReuseDocs
  /\ outcome.done /\ result.done
  /\ doc.nth < MaxCalls
  /\ doc' = [set |-> TRUE, text |-> d, nth |-> doc.nth + 1]
  /\ outcome' = NoOutcome
  /\ result' = NoResult
  /\ structure' = NoStructure
  /\ UNCHANGED <<encoder, decoder, validator, call, ret>>

\* convert_content on the decoder with the document at hand
ConvertContent ==
  /\ doc.set
  /\ LET returns(r) ==
           /\ decoder' = r.d
           /\ outcome' = [done |-> TRUE, raised |-> r.raised, saved |-> r.saved, step |-> r.step]
     IN  returns(convert_content(decoder, doc.text))
  /\ UNCHANGED <<encoder, doc, validator, result, structure, call, ret>>

\* validate_string on the validator with the document at hand
ValidateString ==
  /\ doc.set
  /\ LET returns(r) ==
           /\ validator' = r.v
           /\ result' = [done |-> TRUE] @@ r.result
     IN  returns(validate_string(validator, doc.text))
  /\ UNCHANGED <<encoder, doc, decoder, outcome, structure, call, ret>>

\* validate_mdn_structure on the document at hand
ValidateStructure ==
  /\ doc.set
  /\ structure' = [done |-> TRUE] @@ validate_mdn_structure(doc.text)
  /\ UNCHANGED <<encoder, doc, decoder, outcome, validator, result, call, ret>>

\* new converter objects for the next document
NewSession ==
  /\ doc.set
  /\ encoder' = NewEncoder
  /\ doc' = NoDoc
  /\ decoder' = NewDecoder
  /\ outcome' = NoOutcome
  /\ validator' = NewValidator
  /\ result' = NoResult
  /\ structure' = NoStructure
  /\ UNCHANGED <<call, ret>>

Next ==
  \/ \E W \in Workbooks, unset \in {NoneV, UnsetV} : ConvertFile(W, unset)
  \/ \E d \in HandDocs : LoadDoc(d)
  \/ \E d \in ReuseDocs : NextDoc(d)
  \/ ConvertContent
  \/ ValidateString
  \/ ValidateStructure
  \/ NewSession

Spec == Init /\ [][Next]_vars

---------------------------------------------------------------------------
(* The module-level functions of utils.py and the decoder's reference      *)
(* parser, each called once on an argument drawn at the start              *)

MaxLetters == 2
\* the indexes tried go this far below 1
BelowOne == 3
MaxIndex == 704
LetterStrings == UNION {[1..n -> Uppers] : n \in 1..MaxLetters}
Indexes == (1 - BelowOne)..MaxIndex

Returned(v) == [done |-> TRUE, raised |-> FALSE, v |-> v]
RaisedError == [done |-> TRUE, raised |-> TRUE, v |-> <<>>]
Calling(fn) == call.fn = fn /\ ~ret.done
Idle == <<encoder, doc, decoder, outcome, validator, result, structure>>

\* cell references: every text of up to MaxRefLen of these characters, and
\* two longer ones
MaxRefLen == 3
RefChars == {"A", "Z", "a", "x", "0", "1", ":"}
RefStrings ==
  UNION {[1..n -> RefChars] : n \in 0..MaxRefLen}
  \cup {<<"A", "1", ":", "B", "2">>, <<"A", "A", "1", "0", "x">>, <<"A", "B", "1", "2">>}

\* command lines: the input file, whether it exists, and whether an
\* output_file is given
CliBooks == {Budget, Q3Data, EmptyBook, TwoSheets, Names}
CliDocs ==
  ReuseDocs \cup BlankHeaderDocs \cup {DocOf(BlocksOf(o), e) : o \in {<<"H", "S", "F">>, <<"S", "F">>, <<>>}, e \in BOOLEAN}
BookCommands ==
  {[command |-> c, input |-> w, exists |-> x, output |-> o] :
     c \in {"excel2mdn", "roundtrip"}, w \in CliBooks, x \in BOOLEAN, o \in BOOLEAN}
DocCommands ==
  {[command |-> c, input |-> d, exists |-> x, output |-> o] :
     c \in {"mdn2excel", "validate"}, d \in CliDocs, x \in BOOLEAN, o \in BOOLEAN}

\* ranges: the rectangles c1 r1 : c2 r2 with c1 <= c2 <= MaxCol + 1 and
\* r1 <= r2 <= MaxRow + 1, unions of two or three cells, and other texts
RangeText(c1, r1, c2, r2) ==
  column_index_to_letter(c1) \o NatStr(r1) \o <<":">> \o column_index_to_letter(c2) \o NatStr(r2)
Rectangles ==
  {q \in (1..(MaxCol + 1)) \X (1..(MaxRow + 1)) \X (1..(MaxCol + 1)) \X (1..(MaxRow + 1)) :
     q[1] <= q[3] /\ q[2] <= q[4]}
CellText(c, r) == column_index_to_letter(c) \o NatStr(r)
SingleCells == {CellText(c, r) : c \in 1..MaxCol, r \in 1..MaxRow}
Unions ==
  {a \o <<",">> \o b : a, b \in SingleCells}
  \cup {<<"A", "1", ",", "A", "3", ",", "A", "5">>, <<"A", "1", ",", " ", "B", "2">>}
OtherRanges ==
  {<<>>, <<"A", "1">>, <<"A", ":", "A">>, <<"A", "1", ":", "B", "2", ":", "C", "3">>,
   <<"a", "1", ":", "b", "2">>, <<"A", "1", ":", "B">>, <<"Z", "9", ":", "A", "A", "1", "0">>,
   <<"A", "1", ":", "B", "3", ",", "D", "4">>, <<"C", "1", ",", "A", "1", ":", "B", "2">>}
RangeStrings ==
  {RangeText(q[1], q[2], q[3], q[4]) : q \in Rectangles} \cup Unions \cup OtherRanges

CallInit ==
  /\ encoder = NewEncoder
  /\ doc = NoDoc
  /\ decoder = NewDecoder
  /\ outcome = NoOutcome
  /\ validator = NewValidator
  /\ result = NoResult
  /\ structure = NoStructure
  /\ ret = NoRet
  /\ \/ call \in {[fn |-> "column_letter_to_index", arg |-> s] : s \in LetterStrings}
     \/ call \in {[fn |-> "column_index_to_letter", arg |-> n] : n \in Indexes}
     \/ call \in {[fn |-> "main", arg |-> a] : a \in BookCommands \cup DocCommands}
     \/ call \in {[fn |-> f, arg |-> r] : f \in {"parse_cell_reference", "_parse_cell_ref"}, r \in RefStrings}
     \/ call \in {[fn |-> "parse_range_reference", arg |-> r] : r \in RangeStrings}

\* column_letter_to_index(column_letter)
ColumnLetterToIndex ==
  /\ Calling("column_letter_to_index")
  /\ ret' = Returned(column_letter_to_index(call.arg))
  /\ UNCHANGED <<Idle, call>>

\* column_index_to_letter(column_index): ValueError below 1
ColumnIndexToLetter ==
  /\ Calling("column_index_to_letter")
  /\ ret' = IF call.arg < 1 THEN RaisedError ELSE Returned(column_index_to_letter(call.arg))
  /\ UNCHANGED <<Idle, call>>

\* utils.parse_cell_reference(cell_ref)
ParseCellReference ==
  /\ Calling("parse_cell_reference")
  /\ LET returns(r) ==
           ret' = IF r.ok THEN Returned([letters |-> r.letters, col |-> r.col, row |-> r.row])
                  ELSE RaisedError
     IN  returns(parse_cell_reference(call.arg))
  /\ UNCHANGED <<Idle, call>>

\* MDNToExcelConverter._parse_cell_ref(cell_ref)
ParseCellRef ==
  /\ Calling("_parse_cell_ref")
  /\ LET returns(r) ==
           ret' = IF r.ok THEN Returned([letters |-> r.col, row |-> r.row]) ELSE RaisedError
     IN  returns(parse_cell_ref(call.arg))
  /\ UNCHANGED <<Idle, call>>

\* utils.parse_range_reference(range_ref)
ParseRangeReference ==
  /\ Calling("parse_range_reference")
  /\ LET returns(r) == ret' = IF r.ok THEN Returned(r.cells) ELSE RaisedError
     IN  returns(parse_range_reference(call.arg))
  /\ UNCHANGED <<Idle, call>>

\* python mdn_converter.py <command> <input_file> [output_file]
Main(unset) ==
  /\ Calling("main")
  /\ ret' = Returned(main(call.arg, unset))
  /\ UNCHANGED <<Idle, call>>

CallNext ==
  \/ ColumnLetterToIndex
  \/ ColumnIndexToLetter
  \/ \E unset \in {NoneV, UnsetV} : Main(unset)
  \/ ParseCellReference
  \/ ParseCellRef
  \/ ParseRangeReference

CallSpec == CallInit /\ [][CallNext]_vars

---------------------------------------------------------------------------
(* Round trip: the document at hand is what one convert_file call of a new *)
(* encoder returned for encoder.workbook, and the decoder has taken it     *)

Encoded == doc.set /\ EncodeCalls = 1
RoundTripped == Encoded /\ outcome.done

HasSheet(wb, name) == \E i \in 1..Len(wb) : wb[i].name = name
SheetNamed(wb, name) == wb[CHOOSE i \in 1..Len(wb) : wb[i].name = name]

\* the cells of the used rectangle of a sheet
UsedCells(sheet) == (1..max_row(sheet)) \X (1..max_column(sheet))

\* the decoded workbook has the sheet and there the cell satisfies P
DecodedCell(name, p, P(_)) ==
  /\ HasSheet(decoder.workbook, name)
  /\ P(CellAt(SheetNamed(decoder.workbook, name), p[1], p[2]))

\* C1: after decode(encode(W)) every cell of W that holds no formula has, at
\* the same sheet, row and column, the same value of the same type.
C1_ValuesRoundTrip ==
  RoundTripped =>
    /\ outcome.saved
    /\ \A i \in 1..Len(encoder.workbook) :
         \A p \in UsedCells(encoder.workbook[i]) :
           LET v == CellAt(encoder.workbook[i], p[1], p[2]).value
           IN  ~IsFormulaValue(v) =>
                 DecodedCell(encoder.workbook[i].name, p, LAMBDA cell : cell.value = v)

\* C2: the validator finds no error in a document the encoder produced.
C2_EncoderOutputAccepted ==
  (Encoded /\ result.done) => (~result.raised /\ result.errors = <<>>)

\* C3: after decode(encode(W)) every formula cell of W holds the same formula
\* text at the same sheet, row and column; for the Budget workbook B2 is
\* "=SUM(B1:B1)", B1 is the integer 100 and A1 is bold.
C3_FormulasRoundTrip ==
  RoundTripped =>
    /\ \A i \in 1..Len(encoder.workbook) :
         \A p \in UsedCells(encoder.workbook[i]) :
           LET v == CellAt(encoder.workbook[i], p[1], p[2]).value
           IN  IsFormulaValue(v) =>
                 DecodedCell(encoder.workbook[i].name, p, LAMBDA cell : cell.value = v)
    /\ encoder.workbook = Budget =>
         /\ DecodedCell(N_Budget, <<2, 2>>, LAMBDA cell : cell.value = StrV(T_SUM))
         /\ DecodedCell(N_Budget, <<1, 2>>, LAMBDA cell : cell.value = IntV(100))
         /\ DecodedCell(N_Budget, <<1, 1>>, LAMBDA cell : cell.font.bold)

\* the key of the formula of the "Q3 Data" workbook
KEY_Q3 == N_Q3 \o <<"!", "A", "A", "1", "0">>

\* C4: the formula in AA10 of sheet "Q3 Data" is encoded under the key
\* "Q3 Data!AA10", and decoding writes it to row 10, column 27 of a sheet
\* named "Q3 Data".
C4_SpacedSheetKeyResolves ==
  (RoundTripped /\ encoder.workbook = Q3Data) =>
    /\ MapHas(formulas_of(Q3Data, EmptyMap), StrV(KEY_Q3))
    /\ DecodedCell(N_Q3, <<10, 27>>, LAMBDA cell : cell.value = StrV(T_AA))

\* what the round trip is to keep of a font colour: an RGB colour
SameRgb(src, dst) == src.type = "rgb" => (dst.type = "rgb" /\ dst.rgb = src.rgb)

\* C5: after decode(encode(W)) every cell of W with bold, italic, an RGB font
\* colour or a number format other than General has the same four attributes
\* at the same cell.
C5_FormattingRoundTrip ==
  RoundTripped =>
    \A i \in 1..Len(encoder.workbook) :
      \A p \in UsedCells(encoder.workbook[i]) :
        LET src == CellAt(encoder.workbook[i], p[1], p[2])
        IN  (src.font.bold \/ src.font.italic \/ src.font.color.type = "rgb"
             \/ src.number_format # GENERAL) =>
              DecodedCell(encoder.workbook[i].name, p,
                          LAMBDA cell : /\ cell.font.bold = src.font.bold
                                        /\ cell.font.italic = src.font.italic
                                        /\ SameRgb(src.font.color, cell.font.color)
                                        /\ cell.number_format = src.number_format)

---------------------------------------------------------------------------
(* Validation: result is what validate_string gave for validator.content   *)

Validated == result.done /\ ~result.raised

Has(seq, x) == \E i \in 1..Len(seq) : seq[i] = x
Count(flags) == Cardinality({i \in 1..Len(flags) : flags[i]})

\* C6: validate_string gives a result for every document; it never raises.
C6_ValidatorTotal == result.done => ~result.raised

\* the violations of validator.content that C7 lists, found on the text
LinesOf(v) == v.lines
PositionsOf(v) == v.section_positions
NoEndMarker(v) == ~Contains(v.content, END_DOCUMENT)
FormulasNotJson(v) ==
  /\ PositionsOf(v).formulas # 0
  /\ Payload(LinesOf(v), PositionsOf(v).formulas) # <<>>
  /\ ~json_loads(Join(Payload(LinesOf(v), PositionsOf(v).formulas), <<"\n">>)).ok
HeaderWithoutSheets(v) ==
  LET lacks(r) == r.ok /\ r.v.k = "map" /\ ~MapHas(r.v, StrV(K_sheets))
  IN  /\ PositionsOf(v).header # 0
      /\ lacks(yaml_safe_load(Join(Payload(LinesOf(v), PositionsOf(v).header), <<"\n">>)))
Violations(v) ==
  Count(<<NoEndMarker(v), PositionsOf(v).header = 0, PositionsOf(v).sheet = <<>>,
          PositionsOf(v).formulas = 0, FormulasNotJson(v), HeaderWithoutSheets(v)>>)

\* the same for the text validate_mdn_structure was given: markers and end
StructureViolations ==
  Count(<<~Contains(doc.text, MARK_PREFIX \o HEADER_SECTION),
          ~Contains(doc.text, MARK_PREFIX \o SHEET_SECTION),
          ~Contains(doc.text, MARK_PREFIX \o FORMULAS_SECTION),
          ~Contains(doc.text, END_DOCUMENT)>>)

\* C7: a document with k of the violations (no END DOCUMENT, a missing HEADER,
\* SHEET or FORMULAS section, a FORMULAS payload that is no JSON, a HEADER
\* without sheets) gets one result with at least k errors.
C7_EveryViolationReported ==
  /\ result.done => (~result.raised /\ Len(result.errors) >= Violations(validator))
  /\ (structure.done /\ EncodeCalls <= 1) => Len(structure.errors) >= StructureViolations

\* the first line of the k-th section of the expected order, 0 if absent
FirstPos(v, k) ==
  LET at == {i \in 1..Len(v.lines) : SectionOfLine(v.lines[i]) = k}
  IN  IF at = {} THEN 0 ELSE Min(at)
OutOfOrder(v) ==
  \E a, b \in 1..5 : a < b /\ FirstPos(v, a) # 0 /\ FirstPos(v, b) # 0
                     /\ FirstPos(v, a) > FirstPos(v, b)

\* every section but SHEET has at most one marker line
MarkedOnce(v) ==
  \A k \in {1, 3, 4, 5} : Cardinality({i \in 1..Len(v.lines) : SectionOfLine(v.lines[i]) = k}) <= 1

\* C8: the result has a section-order error exactly when two present sections
\* stand against the order HEADER, SHEET, FORMULAS, FORMAT, AI_PROMPT (SHEET at
\* its first marker), and the pair an error names is such a pair.
C8_OrderErrorExactly ==
  (result.done /\ MarkedOnce(validator)) =>
    /\ Has(result.errors, "section_order") <=> OutOfOrder(validator)
    /\ \A i \in 1..Len(result.order) :
         FirstPos(validator, result.order[i][1]) > FirstPos(validator, result.order[i][2])

\* documents whose only findings are warnings, with the warning each draws
WarningCases ==
  {[doc |-> DocOf(HeaderBlock(Text(H_dup)) \o StdSheet \o StdFormulas, TRUE),
    kind |-> "duplicate_sheet_names"],
   [doc |-> DocOf(HeaderBlock(Text(H_version)) \o StdSheet \o StdFormulas, TRUE),
    kind |-> "version_format"],
   [doc |-> DocOf(HeaderBlock(Text(H_good)) \o SheetBlock(N_S, Text(S_one)) \o StdFormulas, TRUE),
    kind |-> "few_rows"],
   [doc |-> DocOf(HeaderBlock(Text(H_good)) \o SheetBlock(N_S, Text(S_uneven)) \o StdFormulas, TRUE),
    kind |-> "column_counts"],
   [doc |-> DocOf(HeaderBlock(Text(H_good)) \o StdSheet \o FormulasBlock(Text(F_badkey)), TRUE),
    kind |-> "cell_reference_format"],
   [doc |-> DocOf(HeaderBlock(Text(H_good)) \o StdSheet \o FormulasBlock(Text(F_text)), TRUE),
    kind |-> "formula_start"]}

\* C9: in every result is_valid holds exactly when there is no error, and a
\* document whose only findings are warnings (duplicate sheet names, a version
\* that is not semantic, fewer than 2 rows, uneven field counts, a formula key
\* of another shape, a formula without '=') is valid and carries the warning.
C9_ValidIffNoErrors ==
  Validated =>
    /\ result.is_valid <=> result.errors = <<>>
    /\ \A c \in WarningCases :
         validator.content = c.doc => (result.is_valid /\ Has(result.warnings, c.kind))

\* a valid result that carries the duplicate-names warning
C9_Witness ==
  /\ Validated
  /\ result.is_valid
  /\ Has(result.warnings, "duplicate_sheet_names")

\* documents with one sheet S and a HEADER, FORMULAS or FORMAT payload of any kind
PayloadDocs == HeaderDocs \cup FormulaDocs \cup FormatDocs

\* C10: whatever the HEADER, FORMULAS or FORMAT payload is, decoding does not
\* abort: the sections are held as mappings, the sheet is written and the
\* workbook is saved.
C10_MalformedPayloadTolerated ==
  (outcome.done /\ EncodeCalls = 0 /\ doc.nth = 1 /\ doc.text \in PayloadDocs) =>
    /\ outcome.saved
    /\ decoder.header_data.k = "map"
    /\ decoder.formulas.k = "map"
    /\ decoder.formatting.k = "map"
    /\ DecodedCell(N_S, <<2, 1>>, LAMBDA cell : cell.value = IntV(1))


---------------------------------------------------------------------------
(* Keys of the FORMULAS and FORMAT maps that address no cell               *)

FirstDecode == outcome.done /\ EncodeCalls = 0 /\ doc.nth = 1
TargetCell(t) == CellAt(decoder.workbook[t.sheet], t.row, t.col)
RuleHolds(cell, rules) ==
  /\ (MapHas(rules, StrV(K_bold)) /\ Truthy(MapGet(rules, StrV(K_bold)))) => cell.font.bold
  /\ MapHas(rules, StrV(K_numberFormat)) =>
       StrV(cell.number_format) = MapGet(rules, StrV(K_numberFormat))

\* C11: a formula or format key with an unknown sheet name, an unparsable
\* cell reference or no '!' is skipped alone: every other key of the map,
\* before or after it, is applied at its cell, nothing is written for the
\* skipped key, and the workbook is saved.
C11_SkippedKeysIsolated ==
  (FirstDecode /\ doc.text \in SkipDocs) =>
    /\ outcome.saved
    /\ \A i \in 1..Len(decoder.formulas.items) :
         LET t == target_of(decoder.workbook, decoder.formulas.items[i].key)
         IN  t.ok => TargetCell(t).value = decoder.formulas.items[i].val
    /\ \A i \in 1..Len(decoder.formatting.items) :
         LET t == target_of(decoder.workbook, decoder.formatting.items[i].key)
         IN  t.ok => RuleHolds(TargetCell(t), decoder.formatting.items[i].val)
    /\ \A n \in 1..Len(decoder.workbook) : \A p \in DOMAIN decoder.workbook[n].cells :
         \A i \in 1..Len(decoder.formulas.items) :
           decoder.workbook[n].cells[p].value = decoder.formulas.items[i].val =>
             LET t == target_of(decoder.workbook, decoder.formulas.items[i].key)
             IN  t.ok /\ t.sheet = n /\ <<t.row, t.col>> = p

\* both maps have a skipped key before and after an applied one
C11_Witness ==
  /\ FirstDecode /\ outcome.saved
  /\ doc.text =
       DocOf(HeaderBlock(Text(H_good)) \o StdSheet \o FormulasBlock(Text(F_mixed))
             \o FormatBlock(Text(G_mixed)), TRUE)
  /\ \E m \in {decoder.formulas, decoder.formatting} :
       \E i, j, k \in 1..Len(m.items) :
         /\ i < j /\ j < k
         /\ ~target_of(decoder.workbook, m.items[i].key).ok
         /\ target_of(decoder.workbook, m.items[j].key).ok
         /\ ~target_of(decoder.workbook, m.items[k].key).ok
  /\ CellAt(SheetNamed(decoder.workbook, N_S), 3, 2).value = StrV(<<"=", "B", "2", "+", "1">>)
  /\ CellAt(SheetNamed(decoder.workbook, N_S), 2, 2).number_format = NF_2
  /\ Cardinality({i \in 1..Len(decoder.formulas.items) :
                    ~target_of(decoder.workbook, decoder.formulas.items[i].key).ok}) = 3


---------------------------------------------------------------------------
(* Calls on objects that have served an earlier document                   *)

\* what one convert_file call of a new encoder returns for W
FreshEncode(W) == {Join(convert_fragments(W, unset), <<"\n">>) : unset \in {NoneV, UnsetV}}
EncoderAsFresh == (doc.set /\ EncodeCalls >= 1) => doc.text \in FreshEncode(encoder.workbook)
DecoderAsFresh ==
  (outcome.done /\ EncodeCalls = 0) =>
    LET same(r) ==
          /\ outcome = [done |-> TRUE, raised |-> r.raised, saved |-> r.saved, step |-> r.step]
          /\ decoder.workbook = r.d.workbook
    IN  same(convert_content(NewDecoder, doc.text))
ValidatorAsFresh ==
  (result.done /\ EncodeCalls = 0) =>
    LET same(r) == result = [done |-> TRUE] @@ r.result
    IN  same(validate_string(NewValidator, doc.text))

\* C12: each encode, decode and validate call on an object that has served
\* earlier calls gives what the same call gives on a new object.
C12_NoStateAcrossCalls == EncoderAsFresh /\ DecoderAsFresh /\ ValidatorAsFresh


---------------------------------------------------------------------------
(* Column letters and column indexes                                       *)

KnownColumns ==
  {<<1, <<"A">>>>, <<26, <<"Z">>>>, <<27, <<"A", "A">>>>, <<702, <<"Z", "Z">>>>,
   <<703, <<"A", "A", "A">>>>}

\* C13: column_index_to_letter(column_letter_to_index(s)) = s for every
\* non-empty s over A..Z, column_letter_to_index(column_index_to_letter(n)) = n
\* for every n >= 1, with 1->A, 26->Z, 27->AA, 702->ZZ, 703->AAA, and
\* column_index_to_letter fails for every index below 1.
C13_LettersIndexesInverse ==
  /\ (call.fn = "column_letter_to_index" /\ ret.done) =>
       /\ ~ret.raised
       /\ ret.v >= 1
       /\ column_index_to_letter(ret.v) = call.arg
       /\ \A kc \in KnownColumns : call.arg = kc[2] => ret.v = kc[1]
  /\ (call.fn = "column_index_to_letter" /\ ret.done) =>
       /\ ret.raised <=> call.arg < 1
       /\ ~ret.raised =>
            /\ ret.v # <<>> /\ \A i \in 1..Len(ret.v) : ret.v[i] \in Uppers
            /\ column_letter_to_index(ret.v) = call.arg
            /\ \A kc \in KnownColumns : call.arg = kc[1] => ret.v = kc[2]

\* index 703 gave AAA
C13_Witness ==
  /\ call = [fn |-> "column_index_to_letter", arg |-> 703]
  /\ ret = Returned(<<"A", "A", "A">>)


---------------------------------------------------------------------------
(* Text cells with a comma                                                 *)

HasComma(v) == v.k = "str" /\ ~IsFormulaValue(v) /\ Contains(v.s, <<",">>)

\* C14: after decode(encode(W)) a string cell whose text contains a comma is
\* one cell with the same text at the same row and column, the cells to its
\* right are at their columns, and the row has no cell beyond its last column.
C14_CommaCellRoundTrip ==
  RoundTripped =>
    \A i \in 1..Len(encoder.workbook) :
      \A p \in UsedCells(encoder.workbook[i]) :
        HasComma(CellAt(encoder.workbook[i], p[1], p[2]).value) =>
          /\ outcome.saved
          /\ \A q \in UsedCells(encoder.workbook[i]) :
               (q[1] = p[1] /\ q[2] >= p[2]) =>
                 DecodedCell(encoder.workbook[i].name, q,
                             LAMBDA cell : cell.value = CellAt(encoder.workbook[i], q[1], q[2]).value)
          /\ \A q \in DOMAIN SheetNamed(decoder.workbook, encoder.workbook[i].name).cells :
               q[1] = p[1] => q[2] <= max_column(encoder.workbook[i])

\* "Smith, J." came back in A1 with 100 to its right in B1
C14_Witness ==
  /\ RoundTripped /\ outcome.saved
  /\ encoder.workbook = Names
  /\ DecodedCell(N_S, <<1, 1>>, LAMBDA cell : cell.value = StrV(T_Smith))
  /\ DecodedCell(N_S, <<1, 2>>, LAMBDA cell : cell.value = IntV(100))


---------------------------------------------------------------------------
(* Exit codes of the command line                                          *)

\* the command reports a failure or an error is thrown
CommandFails(args) ==
  \/ ~args.exists
  \/ args.command = "mdn2excel" /\ (~args.output \/ mdn_to_excel(args.input).raised)
  \/ args.command = "validate" /\ ~validate_mdn_structure(args.input).valid
  \/ args.command = "roundtrip" /\
       \E unset \in {NoneV, UnsetV} : ~round_trip_test(args.input, unset).success

\* C15: each command exits with 0 on success and with 1 on a reported failure
\* or a thrown error; validate of a document reported invalid exits with 1,
\* and roundtrip exits with 1 when the round-trip test returns false.
C15_ExitCodes ==
  (call.fn = "main" /\ ret.done) =>
    ret.v = (IF CommandFails(call.arg) THEN EXIT_FAILURE ELSE EXIT_OK)

\* the other three commands exit as the claim says; validate exits with 0
\* also for a document it reports as invalid
ExitCodesButValidate ==
  (call.fn = "main" /\ ret.done /\ call.arg.command # "validate") =>
    ret.v = (IF CommandFails(call.arg) THEN EXIT_FAILURE ELSE EXIT_OK)


---------------------------------------------------------------------------
(* Cell references                                                         *)

\* ^[A-Z]+[0-9]+$
LeadingUppers(t) == CHOOSE a \in 0..Len(t) :
  /\ \A i \in 1..a : t[i] \in Uppers
  /\ a < Len(t) => t[a + 1] \notin Uppers
IsCellRef(t) ==
  /\ LeadingUppers(t) \in 1..(Len(t) - 1)
  /\ \A i \in (LeadingUppers(t) + 1)..Len(t) : t[i] \in Digits
RefLetters(t) == SubSeq(t, 1, LeadingUppers(t))
RefRow(t) == ParseNat(SubSeq(t, LeadingUppers(t) + 1, Len(t)))

\* C16: parse_cell_reference fails for every reference that is not, as a
\* whole, letters A..Z followed by digits, and for such a reference returns
\* its letters, their column index and the row number; the decoder's
\* _parse_cell_ref fails for the same references.
C16_WholeReferenceOnly ==
  /\ (call.fn = "parse_cell_reference" /\ ret.done) =>
       /\ ret.raised <=> ~IsCellRef(call.arg)
       /\ ~ret.raised =>
            ret.v = [letters |-> RefLetters(call.arg),
                     col |-> column_letter_to_index(RefLetters(call.arg)),
                     row |-> RefRow(call.arg)]
  /\ (call.fn = "_parse_cell_ref" /\ ret.done) =>
       /\ ret.raised <=> ~IsCellRef(call.arg)
       /\ ~ret.raised => ret.v = [letters |-> RefLetters(call.arg), row |-> RefRow(call.arg)]

\* what holds of both parsers: a whole reference gives its parts, and a text
\* that does not start with letters followed by a digit fails
RefPrefixParsed ==
  (call.fn \in {"parse_cell_reference", "_parse_cell_ref"} /\ ret.done) =>
    /\ IsCellRef(call.arg) => (~ret.raised /\ ret.v.letters = RefLetters(call.arg)
                                /\ ret.v.row = RefRow(call.arg))
    /\ ret.raised <=> ~\E n \in 1..Len(call.arg) : IsCellRef(SubSeq(call.arg, 1, n))


---------------------------------------------------------------------------
(* The layout of an encoded document                                       *)

DocLines == Split(doc.text, <<"\n">>)
\* the lines of the document that open a section, in document order
RECURSIVE MarkerLines(_)
MarkerLines(lines) ==
  IF lines = <<>> THEN <<>>
  ELSE (IF StartsWith(lines[1], MARK_PREFIX \o MDN_PREFIX) THEN <<lines[1]>> ELSE <<>>)
       \o MarkerLines(Tail(lines))
\* the marker lines the claim describes for workbook wb, with or without FORMAT
Layout(wb, withFormat) ==
  <<MARK_PREFIX \o HEADER_SECTION>>
  \o [i \in 1..Len(wb) |-> MARK_PREFIX \o SHEET_SECTION \o NAME_ATTR \o wb[i].name]
  \o <<MARK_PREFIX \o FORMULAS_SECTION>>
  \o (IF withFormat THEN <<MARK_PREFIX \o FORMAT_SECTION>> ELSE <<>>)

\* C17: the document of one convert_file call on a new encoder starts with
\* its one HEADER marker, then has one SHEET marker per sheet in workbook
\* order, then one FORMULAS marker, then at most one FORMAT marker, and ends
\* with the line END DOCUMENT.
C17_EncodedLayout ==
  Encoded =>
    /\ DocLines[1] = MARK_PREFIX \o HEADER_SECTION
    /\ \E withFormat \in BOOLEAN : MarkerLines(DocLines) = Layout(encoder.workbook, withFormat)
    /\ DocLines[Len(DocLines)] = END_DOCUMENT

\* the document of the workbook with the sheets S and T
C17_Witness ==
  /\ Encoded
  /\ encoder.workbook = TwoSheets
  /\ MarkerLines(DocLines) = Layout(TwoSheets, FALSE)
  /\ DocLines[Len(DocLines)] = END_DOCUMENT


---------------------------------------------------------------------------
(* The type a decoded field gets                                           *)

WithoutSign(t) == IF t # <<>> /\ t[1] = "-" THEN Tail(t) ELSE t
\* ^-?[0-9]+$
IsIntText(t) == IsDigit(WithoutSign(t))
IntOfText(t) == IF t[1] = "-" THEN IntV(0 - ParseNat(Tail(t))) ELSE IntV(ParseNat(t))
\* digits with exactly one '.', after an optional '-'
IsRealText(t) ==
  /\ Cardinality({i \in 1..Len(WithoutSign(t)) : WithoutSign(t)[i] = "."}) = 1
  /\ IsDigit(Replace(WithoutSign(t), <<".">>, <<>>))
\* the fields of row r of the payload the decoder keeps for its sheet n
FieldsOf(n, r) == csv_reader_row(decoder.sheets_data[n].rows[r]).row
DecodedField(n, r, c) == CellAt(decoder.workbook[n], r, c).value

\* C18: a field that is an optional '-' and digits is written as that
\* integer, the empty field as None, and a field of digits with one '.' and
\* an optional '-' as that real.
C18_FieldTypes ==
  (FirstDecode /\ doc.text = SignedDoc) =>
    /\ outcome.saved
    /\ \A r \in 1..Len(decoder.sheets_data[1].rows) : \A c \in 1..Len(FieldsOf(1, r)) :
         LET t == FieldsOf(1, r)[c]
         IN  /\ IsIntText(t) => DecodedField(1, r, c) = IntOfText(t)
             /\ t = <<>> => DecodedField(1, r, c) = NoneV
             /\ IsRealText(t) => DecodedField(1, r, c) = FloatOf(t).v

\* the same with the integers limited to the unsigned ones
UnsignedFieldTypes ==
  (FirstDecode /\ doc.text = SignedDoc) =>
    /\ outcome.saved
    /\ \A r \in 1..Len(decoder.sheets_data[1].rows) : \A c \in 1..Len(FieldsOf(1, r)) :
         LET t == FieldsOf(1, r)[c]
         IN  /\ IsDigit(t) => DecodedField(1, r, c) = IntOfText(t)
             /\ t = <<>> => DecodedField(1, r, c) = NoneV
             /\ IsRealText(t) => DecodedField(1, r, c) = FloatOf(t).v
             /\ (IsIntText(t) /\ ~IsDigit(t)) => DecodedField(1, r, c) = FloatOf(t).v

\* C19: the conversion of a field never raises: a field that is no integer
\* and no real, also one made of digits, '.' and '-' only, is kept as the
\* string, and the fields after it, the formulas and the formats are applied.
C19_CoercionTotal ==
  (FirstDecode /\ doc.text \in CoerceDocs) =>
    /\ ~outcome.raised /\ outcome.saved
    /\ \A r \in 1..Len(decoder.sheets_data[1].rows) : \A c \in 1..Len(FieldsOf(1, r)) :
         LET t == FieldsOf(1, r)[c]
         IN  /\ DecodedField(1, r, c).k \in {"none", "int", "real", "str"}
             /\ (t # <<>> /\ ~IsIntText(t) /\ ~IsRealText(t)) => DecodedField(1, r, c) = StrV(t)
    /\ DecodedField(1, 3, 1) = StrV(<<"=", "A", "2", "+", "1">>)
    /\ doc.text # SignedDoc => CellAt(decoder.workbook[1], 1, 1).font.bold


---------------------------------------------------------------------------
(* The colour in the FORMAT record of a cell                               *)

\* the document at hand is the one written with the records FormatRecord(_, unset)
WrittenWith(unset) == doc.text = excel_to_mdn(encoder.workbook, unset)
LastSix(argb) == SubSeq(argb, Len(argb) - 5, Len(argb))
HasKey(rec, kx) == MapHas(rec, StrV(kx))
ThemeRecordRight(color, rec) ==
  /\ (color.type = "theme" /\ color.theme # 1) =>
       (HasKey(rec, K_theme) /\ MapGet(rec, StrV(K_theme)) = IntV(color.theme)
        /\ ~HasKey(rec, K_color))
  /\ (color.type = "none" \/ (color.type = "theme" /\ color.theme = 1)) =>
       (~HasKey(rec, K_theme) /\ ~HasKey(rec, K_color))
RgbRecordRight(color, rec) ==
  color.type = "rgb" =>
    (HasKey(rec, K_color) /\ MapGet(rec, StrV(K_color)) = StrV(<<"#">> \o LastSix(color.rgb))
     /\ ~HasKey(rec, K_theme))
CellsOf(wb) == {<<i, p>> : i \in 1..Len(wb), p \in (1..MaxRow) \X (1..MaxCol)}
ColorAt(wb, ip) == CellAt(wb[ip[1]], ip[2][1], ip[2][2]).font.color
RecordAt(wb, ip, unset) == FormatRecord(CellAt(wb[ip[1]], ip[2][1], ip[2][2]), unset)

\* C20: the FORMAT record of a cell with an RGB font colour has color = '#'
\* and the six RGB digits, whatever the alpha, and no theme; with a theme
\* colour other than 1 it has that theme and no color; with theme 1 or no
\* colour it has neither.
C20_ColorRecord ==
  Encoded =>
    \A unset \in {NoneV, UnsetV} : WrittenWith(unset) =>
      \A ip \in CellsOf(encoder.workbook) :
        /\ ThemeRecordRight(ColorAt(encoder.workbook, ip), RecordAt(encoder.workbook, ip, unset))
        /\ RgbRecordRight(ColorAt(encoder.workbook, ip), RecordAt(encoder.workbook, ip, unset))

\* the theme and the no-colour cases on their own
ThemeColorRecord ==
  Encoded =>
    \A unset \in {NoneV, UnsetV} : WrittenWith(unset) =>
      \A ip \in CellsOf(encoder.workbook) :
        ThemeRecordRight(ColorAt(encoder.workbook, ip), RecordAt(encoder.workbook, ip, unset))


---------------------------------------------------------------------------
(* The FORMAT section of an encoded document                               *)

\* a cell with a number format other than General, a bold or italic font, or
\* a font colour that is RGB or a theme other than 1
HasAttribute(cell) ==
  \/ cell.number_format \notin {<<>>, GENERAL}
  \/ cell.font.bold
  \/ cell.font.italic
  \/ cell.font.color.type = "rgb"
  \/ cell.font.color.type = "theme" /\ cell.font.color.theme # 1
Formatted(wb) ==
  \E i \in 1..Len(wb) : \E p \in DOMAIN wb[i].cells : HasAttribute(wb[i].cells[p])
\* the fragments of the document that follow a FORMAT marker
FormatPayloadsOf(fragments) ==
  {fragments[i + 1] : i \in {j \in 1..(Len(fragments) - 1) :
                               fragments[j] = MARK_PREFIX \o FORMAT_SECTION}}
\* no record of the mapping is empty: no '{}' in its text, and when the text
\* loads, every value is a mapping with an entry
NoEmptyRecord(payload) ==
  /\ ~Contains(payload, <<"{", "}">>)
  /\ LET holds(r) == r.ok => /\ r.v.k = "map"
                             /\ \A n \in 1..Len(r.v.items) :
                                  /\ r.v.items[n].val.k = "map"
                                  /\ r.v.items[n].val.items # <<>>
     IN  holds(yaml_safe_load(payload))

\* C21: the document of one convert_file call on a new encoder holds the
\* text 'MDN:FORMAT JSON' if and only if a cell of the workbook has a number
\* format other than General, a bold or italic font or a recorded colour, and
\* the FORMAT mapping it holds has no empty record.
C21_FormatSectionIffAttribute ==
  Encoded =>
    /\ Contains(doc.text, FORMAT_SECTION) <=> Formatted(encoder.workbook)
    /\ \A payload \in FormatPayloadsOf(encoder.mdn_content) : NoEmptyRecord(payload)

\* a workbook with a bold cell among cells without an attribute, its FORMAT
\* section written
C21_Witness ==
  /\ Encoded
  /\ encoder.workbook = Budget
  /\ Contains(doc.text, FORMAT_SECTION)
  /\ FormatPayloadsOf(encoder.mdn_content) # {}


---------------------------------------------------------------------------
(* The sheets of the decoded workbook                                      *)

\* C22: the workbook a new decoder builds has one sheet per name of the
\* SHEET segments that have a name and a payload, in the order of their first
\* occurrence in the document, and it is the same workbook, sheets and cells,
\* whatever sheets list the header holds.
C22_SheetsFromSegments ==
  \A h \in ListHeaders, body \in ListBodies :
    (FirstDecode /\ doc.text = ListDoc(h, body)) =>
      /\ outcome.saved
      /\ sheetnames(decoder.workbook) = body.names
      /\ \A h2 \in ListHeaders :
           LET same(r) == r.saved /\ r.d.workbook = decoder.workbook
           IN  same(mdn_to_excel(ListDoc(h2, body)))

\* the header lists S only and the document holds the sheets T and S
C22_Witness ==
  /\ FirstDecode
  /\ \E body \in ListBodies : doc.text = ListDoc(H_good, body) /\ body.names = <<N_T, N_S>>
  /\ sheetnames(decoder.workbook) = <<N_T, N_S>>
  /\ mdn_to_excel(ListDoc(H_other, [blocks |-> OtherSheet \o StdSheet \o StdFormulas,
                                    names |-> <<N_T, N_S>>])).d.workbook = decoder.workbook


---------------------------------------------------------------------------
(* Formulas are written after the sheet payloads                           *)

\* every key of the FORMULAS map that addresses a cell of the workbook has
\* its value at that cell
FormulasInPlace ==
  \A i \in 1..Len(decoder.formulas.items) :
    LET t == target_of(decoder.workbook, decoder.formulas.items[i].key)
    IN  (t.ok /\ decoder.formulas.items[i].val.k = "str") =>
          TargetCell(t).value = decoder.formulas.items[i].val

\* C23: whatever field the CSV payload holds at the cell a formula key
\* addresses, and with the FORMULAS section after or before the SHEET
\* section, the decode ends with the formula string in that cell.
C23_FormulaOverwritesPayload ==
  \A t \in FirstFields, order \in PlaceOrders :
    (FirstDecode /\ doc.text = PlaceDoc(t, order)) =>
      /\ outcome.saved
      /\ CellAt(decoder.workbook[1], 1, 1).value = StrV(<<"=", "A", "2", "+", "1">>)
      /\ FormulasInPlace

\* the same for the payload fields the type conversion accepts, and for
\* every document whose decode ends with the workbook saved
FormulaOverwritesConverted ==
  /\ \A t \in FirstFields \ OddTexts, order \in PlaceOrders :
       (FirstDecode /\ doc.text = PlaceDoc(t, order)) =>
         /\ outcome.saved
         /\ CellAt(decoder.workbook[1], 1, 1).value = StrV(<<"=", "A", "2", "+", "1">>)
  /\ (FirstDecode /\ outcome.saved /\ decoder.formulas.k = "map") => FormulasInPlace


---------------------------------------------------------------------------
(* The cells of a range                                                    *)

\* the cells of the rectangle, column by column, the rows ascending
RectangleCells(c1, r1, c2, r2) ==
  LET rows == r2 - r1 + 1
  IN  [k \in 1..((c2 - c1 + 1) * rows) |->
         CellText(c1 + ((k - 1) \div rows), r1 + ((k - 1) % rows))]
CalledWith(fn, arg) == call.fn = fn /\ call.arg = arg /\ ret.done

\* C24: parse_range_reference returns for a rectangle c1 r1 : c2 r2 with
\* c1 <= c2 and r1 <= r2 its cells column by column with the rows ascending,
\* each once, and for a union of cells the cells in the order written; it
\* does not raise on such input.
C24_RangeCells ==
  /\ \A q \in Rectangles :
       CalledWith("parse_range_reference", RangeText(q[1], q[2], q[3], q[4])) =>
         ~ret.raised /\ ret.v = RectangleCells(q[1], q[2], q[3], q[4])
  /\ \A a, b \in SingleCells :
       CalledWith("parse_range_reference", a \o <<",">> \o b) =>
         ~ret.raised /\ ret.v = <<a, b>>
  /\ CalledWith("parse_range_reference", <<"A", "1", ",", "A", "3", ",", "A", "5">>) =>
       ~ret.raised /\ ret.v = <<<<"A", "1">>, <<"A", "3">>, <<"A", "5">>>>

\* the unions on their own, and every rectangle raises
UnionCellsOnly ==
  /\ \A a, b \in SingleCells :
       CalledWith("parse_range_reference", a \o <<",">> \o b) =>
         ~ret.raised /\ ret.v = <<a, b>>
  /\ CalledWith("parse_range_reference", <<"A", "1", ",", "A", "3", ",", "A", "5">>) =>
       ~ret.raised /\ ret.v = <<<<"A", "1">>, <<"A", "3">>, <<"A", "5">>>>
  /\ \A q \in Rectangles :
       CalledWith("parse_range_reference", RangeText(q[1], q[2], q[3], q[4])) => ret.raised


---------------------------------------------------------------------------
(* The context block                                                       *)

\* the decoder and the validator have done with `other` what they did with
\* the document at hand
SameDecode(other) ==
  LET same(r) == /\ r.d = decoder
                 /\ r.raised = outcome.raised /\ r.saved = outcome.saved /\ r.step = outcome.step
  IN  outcome.done => same(mdn_to_excel(other))
SameValidation(other) ==
  LET same(r) == ([done |-> TRUE] @@ r.result) = result
  IN  result.done => same(validate_string(NewValidator, other))
\* the encoder's document without the three fragments of the context block
WithoutContext(fragments) ==
  Join(SubSeq(fragments, 1, 3) \o SubSeq(fragments, 7, Len(fragments)), <<"\n">>)

---------------------------------------------------------------------------
(* The section order of an accepted document                               *)

\* the lines of the document at hand that open a section of this kind
MarkersOf(section) ==
  {i \in 1..Len(DocLines) : StartsWith(DocLines[i], MARK_PREFIX \o section)}
\* validate_string has accepted the document at hand
Accepted == result.done /\ validator.content = doc.text /\ ~result.raised /\ result.is_valid

\* C26: a document validate_string accepts has exactly one HEADER marker and
\* exactly one FORMULAS marker, and every SHEET marker stands after the
\* HEADER marker and before the FORMULAS marker.
C26_AcceptedSectionOrder ==
  Accepted =>
    /\ Cardinality(MarkersOf(HEADER_SECTION)) = 1
    /\ Cardinality(MarkersOf(FORMULAS_SECTION)) = 1
    /\ \A s \in MarkersOf(SHEET_SECTION) :
         /\ \A h \in MarkersOf(HEADER_SECTION) : h < s
         /\ \A f \in MarkersOf(FORMULAS_SECTION) : s < f

\* what does hold: the last HEADER marker stands before the first SHEET
\* marker, and that one before the last FORMULAS marker
AcceptedFirstSheetOrder ==
  Accepted =>
    /\ MarkersOf(HEADER_SECTION) # {} /\ MarkersOf(SHEET_SECTION) # {}
    /\ MarkersOf(FORMULAS_SECTION) # {}
    /\ Max(MarkersOf(HEADER_SECTION)) < Min(MarkersOf(SHEET_SECTION))
    /\ Min(MarkersOf(SHEET_SECTION)) < Max(MarkersOf(FORMULAS_SECTION))


---------------------------------------------------------------------------
(* The sheets and the rows of a round trip                                 *)

\* the decoded workbook has the sheet names of W in their order, and every
\* cell of W that holds an unsigned integer holds it, in the same row and
\* column, in the decoded sheet
RowsInPlace(W) ==
  /\ outcome.saved
  /\ sheetnames(decoder.workbook) = sheetnames(W)
  /\ \A i \in 1..Len(W) : \A p \in DOMAIN W[i].cells :
       (W[i].cells[p].value.k = "int" /\ W[i].cells[p].value.n >= 0) =>
         CellAt(decoder.workbook[i], p[1], p[2]).value = W[i].cells[p].value

\* C27: decoding the document of a workbook gives the sheet names of the
\* workbook in their order, a sheet without cells included, and keeps every
\* row at its place, also when the CSV line of a row is blank, starts with
\* 'MDN:' or holds a line break inside a cell.
C27_RowsRoundTrip ==
  \A W \in RowBooks \cup {EmptyBook, EmptyAndData, TwoSheets} :
    (RoundTripped /\ encoder.workbook = W) => RowsInPlace(W)

\* the same without the blank, 'MDN:' and line-break texts, for sheet names
\* without a blank
PlainRowsRoundTrip ==
  \A W \in {RowBook(T_x, k) : k \in 1..(MaxRow + 1)} \cup (ScenarioBooks \ {Q3Data}) :
    (RoundTripped /\ encoder.workbook = W) => RowsInPlace(W)


---------------------------------------------------------------------------
(* The segments of an encoded document                                     *)

\* the segments of the document at hand that the decoder reads as a section
\* of this kind
SegmentsOf(section) ==
  LET parts == Split(doc.text, SEP)
  IN  {i \in 1..Len(parts) : StartsWith(Strip(parts[i]), section)}
\* the decoder holds what the encoder emitted for W: one SHEET segment per
\* sheet with its name and its whole payload, one HEADER and one FORMULAS
\* segment, the formulas and the format records
SectionsRecovered(W) ==
  /\ Cardinality(SegmentsOf(HEADER_SECTION)) = 1
  /\ Cardinality(SegmentsOf(SHEET_SECTION)) = Len(W)
  /\ Cardinality(SegmentsOf(FORMULAS_SECTION)) = 1
  /\ Len(decoder.sheets_data) = Len(W)
  /\ \A i \in 1..Len(W) :
       /\ decoder.sheets_data[i].name = W[i].name
       /\ Join(decoder.sheets_data[i].rows, <<"\n">>) = sheet_to_csv(W[i])
  /\ decoder.formulas = formulas_of(W, EmptyMap)
  /\ decoder.formatting = clean_formatting(W, NoneV)

\* C28: the decoder finds in the document of a workbook exactly the sections
\* the encoder emitted, with their whole payload, also when a cell value, a
\* sheet name, a formula or a number format holds '---'.
C28_SegmentsAsEmitted ==
  \A W \in DashBooks :
    (RoundTripped /\ encoder.workbook = W) => SectionsRecovered(W)

\* the same for the workbooks with two dashes in place of three
TwoDashesAsEmitted ==
  \A kind \in DashKinds :
    (RoundTripped /\ encoder.workbook = DashBook(kind, <<"-", "-">>)) =>
      SectionsRecovered(DashBook(kind, <<"-", "-">>))

===========================================================================
